---- MODULE Spec2Model ----
(***************************************************************************)
(* Model of the sidecar proxy's runtime subsystems.                        *)
(*                                                                         *)
(* Part 1: the per-service circuit breaker                                 *)
(* (ai-sidecar-showcase/backend/src/circuit_breaker.rs).                   *)
(*                                                                         *)
(* A CircuitBreaker is shared by the request tasks of one service.  Its    *)
(* state and last_failure_time sit behind tokio RwLocks, the two counters  *)
(* are AtomicU32.  Every public operation first copies the state under a   *)
(* read lock that is released at once, and only then acts on the copy, so  *)
(* the operations of different tasks interleave between those points.      *)
(* Each action below is one such point: one lock-protected section or one  *)
(* atomic operation.  A transition_to_* function holds the state write     *)
(* lock from its first to its last statement; no other task can read or    *)
(* write the state in between, and the atomic stores inside it commute     *)
(* with every counter operation another task can perform meanwhile, so the *)
(* whole function is one step.                                             *)
(*                                                                         *)
(* Time is a discrete clock `now`; Instant::now() reads it and             *)
(* Instant::elapsed() is `now - instant`.                                  *)
(***************************************************************************)
EXTENDS Integers, Naturals, FiniteSets, Sequences, TLC

\* ---------------------------------------------------------------- bounds
\* Number of concurrent request tasks sharing one breaker.
NumTasks == 2
\* Last value of the discrete clock.
MaxTime == 4
\* CircuitBreaker::new(failure_threshold): the constructor's argument.
FailureThreshold == 2
\* self.timeout, in clock ticks (with_timeout sets it; 60 s by default).
Timeout == 2

\* ------------------------------------------------------ program constants
\* half_open_success_threshold: 3
HalfOpenSuccessThreshold == 3
\* fetch_add on an AtomicU32 wraps at 2^32.  A counter grows by at most one per
\* task while the state stays put and is reset or frozen when the state
\* changes, so it stays below threshold + number of tasks and never wraps:
\* fetch_add(1) + 1 is the plain successor.
fetch_add(c) == c + 1

Tasks == 1..NumTasks
\* The task that start_health_checks spawns, beside the request tasks.
Prober == 0
LockTasks == Tasks \cup {Prober}
\* The tokio RwLocks that the request tasks and the probe task share (the
\* state and last_failure_time of one service's breaker among them).
Locks == {"health_status", "request_history", "service_metrics",
          "endpoint_metrics", "state", "last_failure_time"}

\* enum CircuitBreakerState
Closed == "Closed"
Open == "Open"
HalfOpen == "HalfOpen"
CircuitBreakerState == {Closed, Open, HalfOpen}

\* Option<Instant>::None
None == -1

VARIABLES
    state,              \* CircuitBreaker.state
    failure_count,      \* CircuitBreaker.failure_count
    success_count,      \* CircuitBreaker.success_count
    last_failure_time,  \* CircuitBreaker.last_failure_time (None or an instant)
    now,                \* the monotonic clock
    pc,                 \* pc[t]: where task t stands inside its current call
    count,              \* count[t]: the local failure_count of record_failure
    ret,                \* ret[t]: what task t's last is_open() returned
    call,               \* history: the breaker as the latest serial call found it
    fail_at,            \* history: the clock when the latest record_failure was called
    via,                \* history: the state the breaker was in before it last opened
    streak,             \* history: record_failure calls since the last record_success
    buckets,            \* RateLimiter.buckets: key -> TokenBucket
    lim_call,           \* history: the latest rate-limiter call, what it found and returned
    run,                \* history: the allow(key) calls made in a row since a bucket's creation
    window,             \* history: the allow(key) calls admitted since one of them, for one key
    health_status,      \* HealthChecker.health_status: endpoint -> HealthStatus
    service_metrics,    \* AIEngine.service_metrics: endpoint -> ServiceHealth
    request_history,    \* AIEngine.request_history
    probe_at,           \* the periodic probe task's position in its round
    force,              \* a force_health_check call's position in its loop
    health_call,        \* history: the endpoint of the mark_endpoint_unhealthy call just made
    decision,           \* the AIDecision the latest select_endpoint call returned, with its input
    round_robin_counters, \* LoadBalancer.round_robin_counters: service -> counter
    lb_call,            \* history: the latest LoadBalancer::select_endpoint call and its result
    connection_counts,  \* LoadBalancer.connection_counts: endpoint -> counter
    conn_call,          \* history: the latest connection-count call and what it returned
    lb_run,             \* history: the results of the selects made in a row for one service and list
    request_counter,    \* MetricsCollector.request_counter
    request_duration,   \* MetricsCollector.request_duration: the histogram's sample count and sum
    endpoint_metrics,   \* MetricsCollector.endpoint_metrics: endpoint -> EndpointMetrics
    recording,          \* recording[t]: where task t stands inside MetricsCollector::record_request
    exposition,         \* what the latest get_prometheus_metrics call gathered, and its position
    circuit_breakers,   \* ProxyServer.circuit_breakers: service -> CircuitBreaker
    request,            \* the request the dispatcher is handling: its position, and its response
    lock_pc,            \* lock_pc[t]: the call task t is in, and the lock step it is to make next
    lock_held,          \* lock_held[l]: the guards of lock l that are alive (task and mode)
    lock_queue,         \* lock_queue[l]: the acquisitions of lock l that wait, oldest first
    flight              \* the requests of the tasks that share one breaker: where each stands

breaker == <<state, failure_count, success_count, last_failure_time>>
locals == <<pc, count, ret>>
history == <<call, fail_at, via, streak>>
limiter == <<buckets, lim_call, run, window>>
health == <<health_status, service_metrics, request_history, probe_at, force,
            health_call>>
balancer == <<round_robin_counters, lb_call, lb_run, connection_counts, conn_call>>
collector == <<request_counter, request_duration, endpoint_metrics, recording,
               exposition>>
dispatch == <<circuit_breakers, request, flight>>
edge == <<collector, dispatch>>
sync == <<lock_pc, lock_held, lock_queue>>
front == <<decision, balancer, edge, sync>>
vars == <<state, failure_count, success_count, last_failure_time, now,
          pc, count, ret, call, fail_at, via, streak,
          buckets, lim_call, run, window,
          health_status, service_metrics, request_history, probe_at, force,
          health_call, decision,
          round_robin_counters, lb_call, lb_run, connection_counts, conn_call,
          request_counter, request_duration, endpoint_metrics, recording,
          exposition, circuit_breakers, request, flight,
          lock_pc, lock_held, lock_queue>>
\* What the circuit breaker's steps leave alone.
Elsewhere == UNCHANGED <<limiter, health, front>>

\* HashMap::new()
EmptyMap == [k \in {} |-> 0]

Idle == "idle"
NoRet == "none"

\* CircuitBreaker::new
Init ==
    /\ state = Closed
    /\ failure_count = 0
    /\ success_count = 0
    /\ last_failure_time = None
    /\ now = 0
    /\ pc = [t \in Tasks |-> Idle]
    /\ count = [t \in Tasks |-> 0]
    /\ ret = [t \in Tasks |-> NoRet]
    /\ call = [op |-> "none", task |-> 1, state |-> Closed,
               failure_count |-> 0, success_count |-> 0, now |-> 0]
    /\ fail_at = None
    /\ via = "none"
    /\ streak = 0
    /\ buckets = EmptyMap
    /\ lim_call = [op |-> "none", key |-> "none", n |-> 0, ok |-> FALSE, value |-> 0]
    /\ run = [key |-> "none", born |-> 0, admitted |-> 0, denied |-> 0]
    /\ window = [key |-> "none", start |-> 0, admitted |-> 0]
    /\ health_status = EmptyMap
    /\ service_metrics = EmptyMap
    /\ request_history = <<>>
    /\ probe_at = 0
    /\ force = [service |-> "none", index |-> 0]
    /\ health_call = "none"
    /\ decision = [input |-> <<>>, selected_endpoint |-> "none",
                   confidence |-> [num |-> 0, den |-> 1], fallback_endpoints |-> <<>>]
    /\ round_robin_counters = EmptyMap
    /\ lb_call = [service |-> "none", endpoints |-> <<>>, selected |-> "none"]
    /\ lb_run = [service |-> "none", endpoints |-> <<>>, fresh |-> FALSE, selected |-> <<>>]
    /\ connection_counts = EmptyMap
    /\ conn_call = [op |-> "none", endpoints |-> <<>>, result |-> 0]
    /\ request_counter = 0
    /\ request_duration = [sample_count |-> 0, sample_sum_ms |-> 0]
    /\ endpoint_metrics = EmptyMap
    /\ recording = [t \in Tasks |-> [at |-> "idle"]]
    /\ exposition = [at |-> "idle", request_counter |-> 0, sample_count |-> 0,
                     endpoints |-> EmptyMap]
    /\ circuit_breakers = [s \in {"service-a", "service-b"} |->
                              [state |-> Closed, failure_count |-> 0,
                               success_count |-> 0, last_failure_time |-> None]]
    /\ request = [at |-> "idle", path |-> <<>>, service |-> "none", open |-> FALSE,
                  endpoint |-> "none", latency_ms |-> 0, success |-> FALSE,
                  status |-> 0, upstream_calls |-> 0,
                  found |-> [total_requests |-> 0, request_counter |-> 0,
                             sample_count |-> 0, endpoint_total |-> 0],
                  reported |-> "none",
                  arrived |-> [state |-> Closed, failure_count |-> 0,
                               success_count |-> 0, last_failure_time |-> None]]
    /\ flight = [phase |-> [t \in Tasks |-> "idle"], healed |-> FALSE,
                 healed_in |-> "none"]
    /\ lock_pc = [t \in LockTasks |-> [op |-> "idle", at |-> 0]]
    /\ lock_held = [l \in Locks |-> {}]
    /\ lock_queue = [l \in Locks |-> <<>>]

\* ------------------------------------------------- the private functions

\* (mutant: the comparison is off by one tick)
should_attempt_reset_early ==
    IF last_failure_time # None
    THEN now - last_failure_time >= Timeout - 1
    ELSE FALSE

\* should_attempt_reset: Some(last_failure) => last_failure.elapsed() >= timeout
should_attempt_reset ==
    IF last_failure_time # None
    THEN now - last_failure_time >= Timeout
    ELSE FALSE

\* transition_to_open: writes the state only when it is not Open already;
\* it touches neither counter nor last_failure_time.
transition_to_open ==
    /\ state' = (IF state # Open THEN Open ELSE state)
    /\ UNCHANGED <<failure_count, success_count, last_failure_time>>

\* (mutant: the transition does not look at the current state)
transition_to_half_open_unguarded ==
    /\ state' = HalfOpen
    /\ success_count' = 0
    /\ UNCHANGED <<failure_count, last_failure_time>>

\* (mutant: the transition forgets to reset success_count)
transition_to_half_open_no_reset ==
    /\ state' = (IF state = Open THEN HalfOpen ELSE state)
    /\ UNCHANGED <<failure_count, success_count, last_failure_time>>

\* transition_to_half_open: acts only from Open; resets success_count.
transition_to_half_open ==
    /\ IF state = Open
       THEN /\ state' = HalfOpen
            /\ success_count' = 0
       ELSE UNCHANGED <<state, success_count>>
    /\ UNCHANGED <<failure_count, last_failure_time>>

\* (mutant: the transition forgets to reset failure_count)
transition_to_closed_keeps_failures ==
    /\ state' = Closed
    /\ success_count' = 0
    /\ UNCHANGED <<failure_count, last_failure_time>>

\* transition_to_closed: unconditional; resets both counters.
transition_to_closed ==
    /\ state' = Closed
    /\ failure_count' = 0
    /\ success_count' = 0
    /\ UNCHANGED last_failure_time

\* (mutant: > in place of >=)
reaches_failure_threshold_strict(c) == c > FailureThreshold

\* failure_count >= self.failure_threshold (record_failure, Closed branch)
reaches_failure_threshold(c) == c >= FailureThreshold

\* success_count >= self.half_open_success_threshold (record_success)
reaches_success_threshold(c) == c >= HalfOpenSuccessThreshold

\* -------------------------------------------------------------- is_open

\* let state = *self.state.read().await; match state { ... }
IsOpenRead(t) ==
    /\ pc[t] = Idle
    /\ IF state = Open
       THEN /\ pc' = [pc EXCEPT ![t] = "should_attempt_reset"]
            /\ ret' = [ret EXCEPT ![t] = NoRet]
       ELSE /\ pc' = pc
            /\ ret' = [ret EXCEPT ![t] = "false"]
    /\ UNCHANGED <<breaker, now, count>>

\* if self.should_attempt_reset().await { ... } else { true }
IsOpenCheck(t) ==
    /\ pc[t] = "should_attempt_reset"
    /\ IF should_attempt_reset
       THEN /\ pc' = [pc EXCEPT ![t] = "transition_to_half_open"]
            /\ ret' = ret
       ELSE /\ pc' = [pc EXCEPT ![t] = Idle]
            /\ ret' = [ret EXCEPT ![t] = "true"]
    /\ UNCHANGED <<breaker, now, count>>

\* self.transition_to_half_open().await; false
IsOpenTransition(t) ==
    /\ pc[t] = "transition_to_half_open"
    /\ transition_to_half_open
    /\ pc' = [pc EXCEPT ![t] = Idle]
    /\ ret' = [ret EXCEPT ![t] = "false"]
    /\ UNCHANGED <<now, count>>

\* ------------------------------------------------------- record_success

\* (mutant: a success in HalfOpen is not counted)
RecordSuccessRead_ignores_half_open(t) ==
    /\ pc[t] = Idle
    /\ pc' = [pc EXCEPT ![t] = IF state = Closed THEN "success_store" ELSE Idle]
    /\ ret' = [ret EXCEPT ![t] = NoRet]
    /\ UNCHANGED <<breaker, now, count>>

\* let current_state = *self.state.read().await; match current_state { ... }
RecordSuccessRead(t) ==
    /\ pc[t] = Idle
    /\ pc' = [pc EXCEPT ![t] =
                CASE state = Closed -> "success_store"
                  [] state = HalfOpen -> "success_fetch_add"
                  [] OTHER -> Idle]
    /\ ret' = [ret EXCEPT ![t] = NoRet]
    /\ UNCHANGED <<breaker, now, count>>

\* (mutant: a success in Closed leaves the failure count alone)
closed_success_store_missing == UNCHANGED failure_count

\* Closed => self.failure_count.store(0, Ordering::Relaxed);
closed_success_store == failure_count' = 0

RecordSuccessStore(t) ==
    /\ pc[t] = "success_store"
    /\ closed_success_store
    /\ pc' = [pc EXCEPT ![t] = Idle]
    /\ UNCHANGED <<state, success_count, last_failure_time, now, count, ret>>

\* HalfOpen => let success_count = self.success_count.fetch_add(1) + 1;
\*             if success_count >= self.half_open_success_threshold { ... }
RecordSuccessFetchAdd(t) ==
    /\ pc[t] = "success_fetch_add"
    /\ success_count' = fetch_add(success_count)
    /\ pc' = [pc EXCEPT ![t] =
                IF reaches_success_threshold(fetch_add(success_count))
                THEN "transition_to_closed" ELSE Idle]
    /\ UNCHANGED <<state, failure_count, last_failure_time, now, count, ret>>

\* self.transition_to_closed().await
RecordSuccessTransition(t) ==
    /\ pc[t] = "transition_to_closed"
    /\ transition_to_closed
    /\ pc' = [pc EXCEPT ![t] = Idle]
    /\ UNCHANGED <<now, count, ret>>

\* ------------------------------------------------------- record_failure

\* let current_state = *self.state.read().await; match current_state { ... }
RecordFailureRead(t) ==
    /\ pc[t] = Idle
    /\ pc' = [pc EXCEPT ![t] =
                CASE state = Closed -> "failure_fetch_add"
                  [] state = HalfOpen -> "transition_to_open"
                  [] OTHER -> "open_set_time"]
    /\ ret' = [ret EXCEPT ![t] = NoRet]
    /\ UNCHANGED <<breaker, now, count>>

\* Closed => let failure_count = self.failure_count.fetch_add(1) + 1;
RecordFailureFetchAdd(t) ==
    /\ pc[t] = "failure_fetch_add"
    /\ failure_count' = fetch_add(failure_count)
    /\ count' = [count EXCEPT ![t] = fetch_add(failure_count)]
    /\ pc' = [pc EXCEPT ![t] = "closed_set_time"]
    /\ UNCHANGED <<state, success_count, last_failure_time, now, ret>>

\* *self.last_failure_time.write().await = Some(Instant::now());
\* if failure_count >= self.failure_threshold { ... }
RecordFailureClosedSetTime(t) ==
    /\ pc[t] = "closed_set_time"
    /\ last_failure_time' = now
    /\ pc' = [pc EXCEPT ![t] =
                IF reaches_failure_threshold(count[t])
                THEN "transition_to_open" ELSE Idle]
    /\ count' = [count EXCEPT ![t] = 0]
    /\ UNCHANGED <<state, failure_count, success_count, now, ret>>

\* Open => *self.last_failure_time.write().await = Some(Instant::now());
RecordFailureOpenSetTime(t) ==
    /\ pc[t] = "open_set_time"
    /\ last_failure_time' = now
    /\ pc' = [pc EXCEPT ![t] = Idle]
    /\ UNCHANGED <<state, failure_count, success_count, now, count, ret>>

\* self.transition_to_open().await (from the Closed or the HalfOpen branch)
RecordFailureTransition(t) ==
    /\ pc[t] = "transition_to_open"
    /\ transition_to_open
    /\ pc' = [pc EXCEPT ![t] = Idle]
    /\ UNCHANGED <<now, count, ret>>

\* ----------------------------------------------------------------- time

\* The clock advances (bounded by MaxTime).
Tick ==
    /\ now < MaxTime
    /\ now' = now + 1
    /\ UNCHANGED <<breaker, locals>>

\* ------------------------------------- concurrent tasks on one breaker

BreakerNext ==
    \/ \E t \in Tasks : IsOpenRead(t) /\ UNCHANGED history /\ Elsewhere
    \/ \E t \in Tasks : IsOpenCheck(t) /\ UNCHANGED history /\ Elsewhere
    \/ \E t \in Tasks : IsOpenTransition(t) /\ UNCHANGED history /\ Elsewhere
    \/ \E t \in Tasks : RecordSuccessRead(t) /\ UNCHANGED history /\ Elsewhere
    \/ \E t \in Tasks : RecordSuccessStore(t) /\ UNCHANGED history /\ Elsewhere
    \/ \E t \in Tasks : RecordSuccessFetchAdd(t) /\ UNCHANGED history /\ Elsewhere
    \/ \E t \in Tasks : RecordSuccessTransition(t) /\ UNCHANGED history /\ Elsewhere
    \/ \E t \in Tasks : RecordFailureRead(t) /\ UNCHANGED history /\ Elsewhere
    \/ \E t \in Tasks : RecordFailureFetchAdd(t) /\ UNCHANGED history /\ Elsewhere
    \/ \E t \in Tasks : RecordFailureClosedSetTime(t) /\ UNCHANGED history /\ Elsewhere
    \/ \E t \in Tasks : RecordFailureOpenSetTime(t) /\ UNCHANGED history /\ Elsewhere
    \/ \E t \in Tasks : RecordFailureTransition(t) /\ UNCHANGED history /\ Elsewhere
    \/ Tick /\ UNCHANGED history /\ Elsewhere

BreakerSpec == Init /\ [][BreakerNext]_vars

\* ------------------------------------------- serial calls on one breaker
\* The same steps, with the calls run one at a time: a call starts only when
\* no call is in progress.  The history variables record what the call found
\* (call), when the latest failure was reported (fail_at), from which state
\* the breaker last opened (via) and how many record_failure calls came since
\* the last record_success (streak, counted up to FailureThreshold).

AllIdle == \A u \in Tasks : pc[u] = Idle

StartCall(op, t) ==
    /\ AllIdle
    /\ call' = [op |-> op, task |-> t, state |-> state,
                failure_count |-> failure_count,
                success_count |-> success_count, now |-> now]
    /\ fail_at' = (IF op = "record_failure" THEN now ELSE fail_at)
    /\ streak' = (CASE op = "record_failure" ->
                         IF streak < FailureThreshold THEN streak + 1 ELSE streak
                    [] op = "record_success" -> 0
                    [] OTHER -> streak)

InCall == UNCHANGED <<call, fail_at, streak>>

TrackVia == via' = (IF state' = Open /\ state # Open THEN state ELSE via)

BreakerSeqNext ==
    \/ \E t \in Tasks : StartCall("is_open", t) /\ IsOpenRead(t) /\ TrackVia /\ Elsewhere
    \/ \E t \in Tasks : IsOpenCheck(t) /\ InCall /\ TrackVia /\ Elsewhere
    \/ \E t \in Tasks : IsOpenTransition(t) /\ InCall /\ TrackVia /\ Elsewhere
    \/ \E t \in Tasks : StartCall("record_success", t) /\ RecordSuccessRead(t) /\ TrackVia /\ Elsewhere
    \/ \E t \in Tasks : RecordSuccessStore(t) /\ InCall /\ TrackVia /\ Elsewhere
    \/ \E t \in Tasks : RecordSuccessFetchAdd(t) /\ InCall /\ TrackVia /\ Elsewhere
    \/ \E t \in Tasks : RecordSuccessTransition(t) /\ InCall /\ TrackVia /\ Elsewhere
    \/ \E t \in Tasks : StartCall("record_failure", t) /\ RecordFailureRead(t) /\ TrackVia /\ Elsewhere
    \/ \E t \in Tasks : RecordFailureFetchAdd(t) /\ InCall /\ TrackVia /\ Elsewhere
    \/ \E t \in Tasks : RecordFailureClosedSetTime(t) /\ InCall /\ TrackVia /\ Elsewhere
    \/ \E t \in Tasks : RecordFailureOpenSetTime(t) /\ InCall /\ TrackVia /\ Elsewhere
    \/ \E t \in Tasks : RecordFailureTransition(t) /\ InCall /\ TrackVia /\ Elsewhere
    \/ Tick /\ UNCHANGED history /\ Elsewhere

BreakerSeqSpec == Init /\ [][BreakerSeqNext]_vars

\* The latest serial call was `op`, found the breaker in state `s`, and has
\* returned.
Returned(op, s) == AllIdle /\ call.op = op /\ call.state = s

\* Task t takes the step that leaves program point `at`.
Leaves(t, at) == pc[t] = at /\ pc'[t] # at

\* ==================================================================== C1
\* C1: a record_failure call that finds the breaker Closed leaves the failure
\* count one higher and last_failure_time at the clock of the call; the
\* breaker is Open afterwards exactly when the incremented count is at least
\* failure_threshold, and Closed otherwise.  (BreakerSeqSpec)
C1_ClosedFailure ==
    Returned("record_failure", Closed) =>
        /\ failure_count = call.failure_count + 1
        /\ last_failure_time \in call.now..now
        /\ state = (IF call.failure_count + 1 >= FailureThreshold
                    THEN Open ELSE Closed)

C1_Witness ==
    /\ Returned("record_failure", Closed)
    /\ call.failure_count + 1 >= FailureThreshold
    /\ state = Open
    /\ last_failure_time = now

\* ==================================================================== C2
\* C2: once the breaker has opened from Closed, an is_open() call made while
\* less than `timeout` has passed since the latest record_failure returns
\* true and leaves the state Open and both counters as they were.
\* (BreakerSeqSpec)
C2_OpenWithinTimeout ==
    ( /\ Returned("is_open", Open)
      /\ via = Closed
      /\ now - fail_at < Timeout )
    => /\ ret[call.task] = "true"
       /\ state = Open
       /\ failure_count = call.failure_count
       /\ success_count = call.success_count

C2_Witness ==
    /\ Returned("is_open", Open)
    /\ via = Closed
    /\ call.failure_count >= FailureThreshold
    /\ now - fail_at < Timeout
    /\ now > fail_at
    /\ ret[call.task] = "true"

\* ==================================================================== C3
\* C3: a record_failure call that finds the breaker HalfOpen leaves it Open
\* with last_failure_time at the clock of that call, so that is_open() keeps
\* returning true until a full timeout has passed since it.  (BreakerSeqSpec)
C3_HalfOpenFailure ==
    Returned("record_failure", HalfOpen) =>
        /\ state = Open
        /\ last_failure_time \in call.now..now

\* ==================================================================== C4
\* C4: an is_open() call that finds the breaker Open with the timeout elapsed
\* goes on to the HalfOpen transition and returns false; the transition
\* changes the state (to HalfOpen) and resets the success counter only if the
\* breaker is still Open when it runs, so of several racing calls one
\* performs it and the others change nothing.  (BreakerSpec)
C4_HalfOpenOnce ==
    [][ \A t \in Tasks :
          /\ ( Leaves(t, "should_attempt_reset")
               /\ last_failure_time # None
               /\ now - last_failure_time >= Timeout )
             => pc'[t] = "transition_to_half_open"
          /\ Leaves(t, "transition_to_half_open")
             => /\ ret'[t] = "false"
                /\ IF state = Open
                   THEN state' = HalfOpen /\ success_count' = 0
                   ELSE state' = state /\ success_count' = success_count
      ]_vars

\* Two calls raced: one has made the transition, a success has been counted
\* since, and the other is about to run the transition.
C4_Witness ==
    \E t \in Tasks :
        /\ pc[t] = "transition_to_half_open"
        /\ state = HalfOpen
        /\ success_count > 0

\* ==================================================================== C5
\* C5: the breaker becomes HalfOpen only by the transition step of an
\* is_open() call, only from Open, and only at a moment when
\* now - last_failure_time >= timeout.  (BreakerSpec)
C5_HalfOpenEntry ==
    [][ (state' = HalfOpen /\ state # HalfOpen) =>
          /\ state = Open
          /\ \E t \in Tasks : Leaves(t, "transition_to_half_open")
          /\ last_failure_time # None
          /\ now - last_failure_time >= Timeout
      ]_vars

\* ==================================================================== C6
\* C6: a record_success call that finds the breaker HalfOpen increments the
\* success counter; below half_open_success_threshold the breaker stays
\* HalfOpen, and on reaching it the breaker is Closed with both counters 0.
\* (BreakerSeqSpec)
C6_HalfOpenSuccess ==
    Returned("record_success", HalfOpen) =>
        IF call.success_count + 1 < HalfOpenSuccessThreshold
        THEN /\ state = HalfOpen
             /\ success_count = call.success_count + 1
             /\ failure_count = call.failure_count
        ELSE /\ call.success_count + 1 = HalfOpenSuccessThreshold
             /\ state = Closed
             /\ failure_count = 0
             /\ success_count = 0

C6_Witness ==
    /\ Returned("record_success", HalfOpen)
    /\ call.success_count + 1 = HalfOpenSuccessThreshold
    /\ call.failure_count > 0
    /\ state = Closed

\* ==================================================================== C7
\* C7: whenever the breaker enters Open, its success counter is 0.
\* (BreakerSeqSpec)
C7_OpenEntrySuccessZero ==
    [][ (state' = Open /\ state # Open) => success_count' = 0 ]_vars

\* ==================================================================== C8
\* C8: under any interleaving the state is one of Closed, Open, HalfOpen; the
\* failure count is 0 when the breaker enters Closed and the success count is
\* 0 when it enters HalfOpen.  (BreakerSpec)
C8_StateAndResets ==
    /\ [](state \in CircuitBreakerState)
    /\ [][ /\ (state' = Closed /\ state # Closed) => failure_count' = 0
           /\ (state' = HalfOpen /\ state # HalfOpen) => success_count' = 0
       ]_vars

\* The breaker went from HalfOpen to Closed while another record_success
\* call, which had read HalfOpen, was still on its way.
C8_Witness ==
    /\ state = Closed
    /\ failure_count = 0
    /\ \E t \in Tasks : pc[t] = "success_fetch_add"

\* ==================================================================== C9
\* C9: a transition function invoked while the breaker is already in its
\* target state changes neither the state nor either counter.  (BreakerSpec)
C9_TransitionIdempotent ==
    [][ \A t \in Tasks :
          /\ (Leaves(t, "transition_to_closed") /\ state = Closed)
             => UNCHANGED <<state, failure_count, success_count>>
          /\ (Leaves(t, "transition_to_open") /\ state = Open)
             => UNCHANGED <<state, failure_count, success_count>>
          /\ (Leaves(t, "transition_to_half_open") /\ state = HalfOpen)
             => UNCHANGED <<state, failure_count, success_count>>
      ]_vars

\* =================================================================== C10
\* C10: a record_success call that finds the breaker Closed sets the failure
\* count to 0 and leaves the breaker Closed; hence the breaker goes from
\* Closed to Open only when failure_threshold record_failure calls have come
\* with no record_success among them.  (BreakerSeqSpec)
C10_ClosedSuccess ==
    /\ [](Returned("record_success", Closed) =>
             /\ state = Closed
             /\ failure_count = 0)
    /\ [][ (state = Closed /\ state' = Open) => streak >= FailureThreshold ]_vars

C10_Witness ==
    /\ Returned("record_success", Closed)
    /\ call.failure_count > 0
    /\ failure_count = 0
    /\ state = Closed

(***************************************************************************)
(* Part 2: the token-bucket rate limiter                                   *)
(* (ai-sidecar-showcase/backend/src/rate_limiter.rs).                      *)
(*                                                                         *)
(* Every public operation of RateLimiter takes the lock on `buckets` for   *)
(* its whole body (is_allowed_n, reset_bucket and cleanup_expired_buckets  *)
(* the write lock, get_remaining_tokens the read lock), so each operation  *)
(* is one step whatever the number of callers.                             *)
(*                                                                         *)
(* The clock `now` counts ticks of 1/TicksPerSecond second and a token is  *)
(* TicksPerSecond units, so that a refill rate of r tokens per second is r *)
(* units per tick and every amount the code computes (f64 there) is an     *)
(* integer here.  The cost n of is_allowed_n is a number of tokens, n >= 0.*)
(***************************************************************************)

\* ---------------------------------------------------------------- bounds
\* RateLimitConfig.burst_size
BurstSize == 2
\* RateLimitConfig.requests_per_second
RequestsPerSecond == 2
\* Resolution of the clock and of the token count.
TicksPerSecond == 5
\* The clock is explored tick by tick up to MaxSmall, and again around the
\* expiry age of a bucket.
MaxSmall == 3

\* ------------------------------------------------------ program constants
\* cleanup_expired_buckets: Duration::from_secs(300)
SweepAfterSecs == 300

\* The limiter keys in use (any strings; two are enough to tell a key from
\* another).
Keys == {"alice", "bob"}
NoKey == "none"
\* The costs n passed to is_allowed_n, in tokens (is_allowed passes 1.0).
Costs == {0, 1, 2}
Units(n) == n * TicksPerSecond
SweepAfter == SweepAfterSecs * TicksPerSecond
LimiterClock == (0..MaxSmall) \cup ((SweepAfter - 1)..(SweepAfter + 1))

Min(a, b) == IF a <= b THEN a ELSE b

\* HashMap::insert / entry().or_insert_with()
Put(map, k, v) == [x \in (DOMAIN map) \cup {k} |-> IF x = k THEN v ELSE map[x]]
\* HashMap::remove / retain
Restrict(map, keep) == [x \in keep |-> map[x]]

\* TokenBucket::new(burst_size as f64, requests_per_second as f64)
TokenBucket_new ==
    [tokens |-> Units(BurstSize), last_refill |-> now,
     capacity |-> Units(BurstSize), refill_rate |-> RequestsPerSecond]

\* (mutant: refill adds nothing)
refill_adds_nothing(b) == [b EXCEPT !.last_refill = now]

\* (mutant: the sum is not clamped to the capacity)
refill_unclamped(b) ==
    [b EXCEPT !.tokens = b.tokens + (now - b.last_refill) * b.refill_rate,
              !.last_refill = now]

\* (mutant: last_refill stays, so the same elapsed time is credited again)
refill_keeps_last_refill(b) ==
    LET elapsed == now - b.last_refill
        tokens_to_add == elapsed * b.refill_rate
    IN  [b EXCEPT !.tokens = Min(b.tokens + tokens_to_add, b.capacity)]

\* TokenBucket::refill
refill(b) ==
    LET elapsed == now - b.last_refill
        tokens_to_add == elapsed * b.refill_rate
    IN  [b EXCEPT !.tokens = Min(b.tokens + tokens_to_add, b.capacity),
                  !.last_refill = now]

\* (mutant: > in place of >=)
try_consume_strict(b, tokens) ==
    LET r == refill(b)
    IN  IF r.tokens > tokens
        THEN [bucket |-> [r EXCEPT !.tokens = @ - tokens], allowed |-> TRUE]
        ELSE [bucket |-> r, allowed |-> FALSE]

\* (mutant: the tokens are taken although the call is denied)
try_consume_takes_anyway(b, tokens) ==
    LET r == refill(b)
    IN  IF r.tokens >= tokens
        THEN [bucket |-> [r EXCEPT !.tokens = @ - tokens], allowed |-> TRUE]
        ELSE [bucket |-> [r EXCEPT !.tokens = 0], allowed |-> FALSE]

\* (mutant: every call costs at least one token)
try_consume_at_least_one(b, tokens) ==
    LET r == refill(b)
        cost == IF tokens < Units(1) THEN Units(1) ELSE tokens
    IN  IF r.tokens >= cost
        THEN [bucket |-> [r EXCEPT !.tokens = @ - cost], allowed |-> TRUE]
        ELSE [bucket |-> r, allowed |-> FALSE]

\* TokenBucket::try_consume: the bucket afterwards, and the result
try_consume(b, tokens) ==
    LET r == refill(b)
    IN  IF r.tokens >= tokens
        THEN [bucket |-> [r EXCEPT !.tokens = @ - tokens], allowed |-> TRUE]
        ELSE [bucket |-> r, allowed |-> FALSE]

NoRun == [key |-> NoKey, born |-> 0, admitted |-> 0, denied |-> 0]

\* history: the run of allow(key) calls that started with the bucket's creation
RunAfterAllow(k, n, allowed) ==
    CASE n = 1 /\ k \notin DOMAIN buckets ->
            [key |-> k, born |-> now,
             admitted |-> IF allowed THEN 1 ELSE 0,
             denied |-> IF allowed THEN 0 ELSE 1]
      [] n = 1 /\ k \in DOMAIN buckets /\ run.key = k ->
            [run EXCEPT !.admitted = IF allowed /\ run.denied = 0 THEN @ + 1 ELSE @,
                        !.denied = IF allowed THEN @ ELSE 1]
      [] n # 1 /\ run.key = k -> NoRun
      [] OTHER -> run

NoWindow == [key |-> NoKey, start |-> 0, admitted |-> 0]

\* history: a window of time opens at any admitted allow(key) call, and counts
\* the allow(key) calls admitted for that key from then on.  A window that
\* opens between two calls admits no more than the one that opens at the
\* first admitted call inside it, and that one is shorter.
WindowAfterAllow(k, n, allowed) ==
    IF n = 1 /\ allowed
    THEN {[key |-> k, start |-> now, admitted |-> 1],
          IF window.key = k THEN [window EXCEPT !.admitted = @ + 1] ELSE window}
    ELSE {window}

\* RateLimiter::is_allowed_n (is_allowed is is_allowed_n(key, 1.0))
is_allowed_n(k, n) ==
    LET bucket == IF k \in DOMAIN buckets THEN buckets[k] ELSE TokenBucket_new
        res == try_consume(bucket, Units(n))
    IN  /\ buckets' = Put(buckets, k, res.bucket)
        /\ lim_call' = [op |-> "allow", key |-> k, n |-> n, ok |-> res.allowed,
                        value |-> res.bucket.tokens]
        /\ run' = RunAfterAllow(k, n, res.allowed)
        /\ window' \in WindowAfterAllow(k, n, res.allowed)
        /\ UNCHANGED <<breaker, now, locals, history, health, front>>

\* (mutant: a missing key is reported as empty)
remaining_of_missing_is_zero(k) ==
    IF k \in DOMAIN buckets THEN buckets[k].tokens ELSE 0

\* get_remaining_tokens: the value returned
remaining_tokens(k) ==
    IF k \in DOMAIN buckets THEN buckets[k].tokens ELSE Units(BurstSize)

\* RateLimiter::get_remaining_tokens
get_remaining_tokens(k) ==
    /\ lim_call' = [op |-> "remaining", key |-> k, n |-> 0, ok |-> TRUE,
                    value |-> remaining_tokens(k)]
    /\ UNCHANGED <<buckets, run, window, breaker, now, locals, history, health, front>>

\* RateLimiter::reset_bucket
reset_bucket(k) ==
    /\ buckets' = Restrict(buckets, (DOMAIN buckets) \ {k})
    /\ lim_call' = [op |-> "reset", key |-> k, n |-> 0, ok |-> TRUE,
                    value |-> remaining_tokens(k)]
    /\ run' = IF run.key = k THEN NoRun ELSE run
    /\ window' = IF window.key = k THEN NoWindow ELSE window
    /\ UNCHANGED <<breaker, now, locals, history, health, front>>

\* (mutant: the comparison is <= in place of <)
retained_inclusive(b) == now - b.last_refill <= SweepAfter

\* cleanup_expired_buckets: the retain predicate
retained(b) == now - b.last_refill < SweepAfter

\* RateLimiter::cleanup_expired_buckets
cleanup_expired_buckets ==
    /\ buckets' = Restrict(buckets, {k \in DOMAIN buckets : retained(buckets[k])})
    /\ lim_call' = [op |-> "sweep", key |-> NoKey, n |-> 0, ok |-> TRUE,
                    value |-> Cardinality({k \in DOMAIN buckets : ~retained(buckets[k])})]
    /\ run' = IF run.key \in DOMAIN buckets /\ ~retained(buckets[run.key])
              THEN NoRun ELSE run
    /\ window' = IF window.key \in DOMAIN buckets /\ ~retained(buckets[window.key])
                 THEN NoWindow ELSE window
    /\ UNCHANGED <<breaker, now, locals, history, health, front>>

\* The clock advances by one tick, or by just under the expiry age.
LimiterTick ==
    \E d \in {1, SweepAfter - 1} :
        /\ now + d \in LimiterClock
        /\ now' = now + d
        /\ run' = NoRun
        /\ UNCHANGED <<buckets, lim_call, window, breaker, locals, history, health, front>>

LimiterNext ==
    \/ \E k \in Keys, n \in Costs : is_allowed_n(k, n)
    \/ \E k \in Keys : get_remaining_tokens(k)
    \/ \E k \in Keys : reset_bucket(k)
    \/ cleanup_expired_buckets
    \/ LimiterTick

LimiterSpec == Init /\ [][LimiterNext]_vars

\* A step that is the rate-limiter call `op` (calls do not move the clock).
LimiterCall(op) == now' = now /\ lim_call'.op = op

\* What is_allowed_n(k, n) must find after the refill, computed from the
\* bucket map before the call: a missing key counts as a full bucket made now.
Refilled(k) ==
    IF k \in DOMAIN buckets
    THEN Min(buckets[k].tokens + (now - buckets[k].last_refill) * RequestsPerSecond,
             Units(BurstSize))
    ELSE Units(BurstSize)

\* The buckets of all keys but k are the same before and after the step.
OthersUnchanged(k) ==
    /\ (DOMAIN buckets') \ {k} = (DOMAIN buckets) \ {k}
    /\ \A j \in (DOMAIN buckets) \ {k} : buckets'[j] = buckets[j]

C12_AllowContract ==
    [][LimiterCall("allow") =>
          LET k == lim_call'.key
              n == Units(lim_call'.n)
          IN  /\ lim_call'.ok = (Refilled(k) >= n)
              /\ k \in DOMAIN buckets'
              /\ buckets'[k].tokens =
                     IF lim_call'.ok THEN Refilled(k) - n ELSE Refilled(k)
              /\ buckets'[k].last_refill = now
              /\ OthersUnchanged(k)]_vars

\* C12 witness: a call was denied and left a refilled, non-empty bucket, while
\* another key has a bucket too.
C12_Witness ==
    /\ DOMAIN buckets = Keys
    /\ lim_call.op = "allow" /\ ~lim_call.ok
    /\ lim_call.value > 0
    /\ buckets[lim_call.key].last_refill > 0

\* C13: with no time elapsing, a key that has no bucket yet is admitted by
\* exactly burst_size consecutive allow(key) calls and denied by the next one.
C13_BurstThenDeny ==
    run.key # NoKey =>
        /\ run.admitted <= BurstSize
        /\ run.denied = 1 => run.admitted = BurstSize
        /\ run.born = now

\* C13 witness: burst_size calls were admitted and the following one denied.
C13_Witness ==
    /\ run.key # NoKey
    /\ run.admitted = BurstSize
    /\ run.denied = 1

\* C14: refill is lazy and proportional: time passing changes no bucket, and
\* an access adds elapsed_seconds * refill_rate tokens since last_refill,
\* clamped to the capacity.  Hence allow(key) is admitted once at least
\* 1/refill_rate seconds have passed since the bucket was emptied, and an
\* emptied bucket accessed after more than one and less than two such periods
\* (0.6 s at 2 tokens per second) admits one call and keeps less than one token.
C14_LazyProportionalRefill ==
    [][/\ now' # now => buckets' = buckets
       /\ (LimiterCall("allow") /\ lim_call'.key \in DOMAIN buckets) =>
            LET k == lim_call'.key
                gain == (now - buckets[k].last_refill) * RequestsPerSecond
                taken == IF lim_call'.ok THEN Units(lim_call'.n) ELSE 0
            IN  /\ buckets'[k].tokens + taken =
                       Min(buckets[k].tokens + gain, Units(BurstSize))
                /\ (lim_call'.n = 1 /\ gain >= Units(1)) => lim_call'.ok
                /\ (/\ lim_call'.n = 1
                    /\ buckets[k].tokens = 0
                    /\ gain >= Units(1)
                    /\ gain < Units(2)) => buckets'[k].tokens = gain - Units(1)]_vars

\* C14 witness: a bucket was emptied at time 0, the next allow(key) came after
\* more than one and less than two refill periods and was admitted, and the
\* call after it, at the same instant, was denied with the fraction left.
C14_Witness ==
    /\ lim_call.op = "allow" /\ lim_call.n = 1 /\ ~lim_call.ok
    /\ lim_call.key \in DOMAIN buckets
    /\ buckets[lim_call.key].last_refill = now
    /\ now * RequestsPerSecond >= Units(1)
    /\ now * RequestsPerSecond < Units(2)
    /\ lim_call.value = now * RequestsPerSecond - Units(1)

\* C15: allow(key, 0) always returns true and never decreases the key's token
\* count, whether the key has a bucket (of any count, empty included) or none
\* (its count is then burst_size, before and after).
C15_ZeroCostAllow ==
    [][(LimiterCall("allow") /\ lim_call'.n = 0) =>
          LET k == lim_call'.key
          IN  /\ lim_call'.ok
              /\ k \in DOMAIN buckets'
              /\ buckets'[k].tokens >= remaining_tokens(k)
              /\ k \notin DOMAIN buckets => buckets'[k].tokens = Units(BurstSize)]_vars

\* C15 witness: allow(key, 0) returned true on an empty bucket.
C15_Witness ==
    /\ lim_call.op = "allow" /\ lim_call.n = 0 /\ lim_call.ok
    /\ lim_call.key \in DOMAIN buckets
    /\ buckets[lim_call.key].tokens = 0

\* The age of key k's bucket.
Age(k) == now - buckets[k].last_refill

\* sweep() removed the buckets in `gone`, and only them, changing no other.
SweepRemoves(gone) ==
    /\ DOMAIN buckets' = (DOMAIN buckets) \ gone
    /\ \A k \in DOMAIN buckets' : buckets'[k] = buckets[k]

\* C16 (as stated): sweep() removes exactly the buckets whose last_refill is
\* older than 5 minutes (age > 5 minutes) and leaves all others unchanged.
C16_SweepOlderThan ==
    [][LimiterCall("sweep") =>
          SweepRemoves({k \in DOMAIN buckets : Age(k) > SweepAfter})]_vars

\* C16 (amended): sweep() removes exactly the buckets whose last_refill is 5
\* minutes old or older (age >= 5 minutes) and leaves all others unchanged.
C16_SweepAtLeast ==
    [][LimiterCall("sweep") =>
          SweepRemoves({k \in DOMAIN buckets : Age(k) >= SweepAfter})]_vars

\* C16 witness: a sweep exactly 5 minutes after time 0 removed one bucket
\* (last refilled at time 0) and kept the bucket refilled one tick later.
C16_Witness ==
    /\ lim_call.op = "sweep" /\ lim_call.value = 1
    /\ now = SweepAfter
    /\ \E k \in DOMAIN buckets : buckets[k].last_refill = 1

\* C17: reset(key) removes that key's bucket and changes no other key's.
\* While the key has no bucket (so directly after the reset, and after any
\* remaining(key) that follows it) remaining(key) returns burst_size and
\* creates no bucket, and allow(key, n) starts from a full bucket.
C17_ResetFrame ==
    [][/\ LimiterCall("reset") =>
            /\ lim_call'.key \notin DOMAIN buckets'
            /\ OthersUnchanged(lim_call'.key)
       /\ (LimiterCall("remaining") /\ lim_call'.key \notin DOMAIN buckets) =>
            /\ lim_call'.value = Units(BurstSize)
            /\ buckets' = buckets
       /\ (LimiterCall("allow") /\ lim_call'.key \notin DOMAIN buckets) =>
            /\ lim_call'.ok = (lim_call'.n <= BurstSize)
            /\ buckets'[lim_call'.key].tokens =
                   Units(BurstSize) - (IF lim_call'.ok THEN Units(lim_call'.n) ELSE 0)
            /\ OthersUnchanged(lim_call'.key)]_vars

\* C17 witness: reset(key) removed an emptied bucket while the other key kept
\* its partly used one.
C17_Witness ==
    /\ lim_call.op = "reset" /\ lim_call.value = 0
    /\ lim_call.key \notin DOMAIN buckets
    /\ \E j \in DOMAIN buckets : buckets[j].tokens < Units(BurstSize)

(***************************************************************************)
(* Part 3: endpoint health                                                 *)
(* (ai-sidecar-showcase/backend/src/health_checker.rs and                  *)
(*  rust-ai-sidecar-proxy/src/ai.rs).                                      *)
(*                                                                         *)
(* The probe loop holds the write lock on health_status from its update of *)
(* the endpoint's HealthStatus until record_request has returned;          *)
(* record_request holds the write lock on request_history for its whole    *)
(* body, update_service_health included.  The update for one endpoint is   *)
(* therefore one step, and so is every live record_request and every       *)
(* locked section of force_health_check.  The HTTP exchange that precedes  *)
(* a step is its nondeterministic input (healthy or not, latency).         *)
(*                                                                         *)
(* f64 quantities are kept exact: success_rate is the fraction num/den and *)
(* avg_latency_ms is num / 10^exp.  last_check, response_time_ms,          *)
(* last_updated and timestamp are written and never read by the code       *)
(* modelled here; they are left out.                                       *)
(***************************************************************************)

\* ---------------------------------------------------------------- bounds
\* Number of observations recorded in an explored run.
MaxObs == 3

\* ------------------------------------------------------ program constants
\* record_request: history.len() > 10000
HistoryLimit == 10000
\* record_request: history.drain(0..1000)
DrainCount == 1000
\* status codes of a probe's RequestMetrics
StatusOk == 200
StatusUnavailable == 503

\* UpstreamService.endpoints of the one configured service, in order
Endpoints == <<"ep1", "ep2">>
EndpointSet == {Endpoints[i] : i \in 1..Len(Endpoints)}
\* services.get(service_name): the configured service, and a name that is not
ServiceNames == {"backend", "unknown"}
Configured(service) == service = "backend"
\* latency_ms samples
Latencies == {10, 30}
\* (status_code, success) of a live request: 2xx, an upstream error status,
\* or 503 for a failed exchange
LiveOutcomes ==
    {[status_code |-> StatusOk, success |-> TRUE],
     [status_code |-> 500, success |-> FALSE],
     [status_code |-> StatusUnavailable, success |-> FALSE]}

\* struct RequestMetrics
RequestMetrics(endpoint, latency_ms, status_code, success) ==
    [latency_ms |-> latency_ms, status_code |-> status_code,
     endpoint |-> endpoint, success |-> success]

\* or_insert(HealthStatus { is_healthy: true, .., 0, 0 })
NewHealthStatus ==
    [is_healthy |-> TRUE, consecutive_failures |-> 0, consecutive_successes |-> 0]

\* or_insert(ServiceHealth { success_rate: 1.0, avg_latency_ms: 0.0, 0, 0 })
NewServiceHealth ==
    [success_rate |-> [num |-> 1, den |-> 1],
     avg_latency_ms |-> [num |-> 0, exp |-> 0],
     error_count |-> 0, total_requests |-> 0]

\* map.entry(k).or_insert(v)
EntryOr(map, k, v) == IF k \in DOMAIN map THEN map[k] ELSE v

\* (mutant: the weights of the sample and of the previous average are swapped)
ewma_swapped(avg, latency_ms) ==
    [num |-> 9 * latency_ms * (10 ^ avg.exp) + avg.num, exp |-> avg.exp + 1]

\* alpha * latency_ms + (1 - alpha) * avg, alpha = 0.1
ewma(avg, latency_ms) ==
    [num |-> latency_ms * (10 ^ avg.exp) + 9 * avg.num, exp |-> avg.exp + 1]

\* (mutant: success_rate is computed before error_count is incremented)
update_service_health_stale_rate(metrics) ==
    LET entry == EntryOr(service_metrics, metrics.endpoint, NewServiceHealth)
        total == entry.total_requests + 1
        errors == IF metrics.success THEN entry.error_count
                  ELSE entry.error_count + 1
    IN  Put(service_metrics, metrics.endpoint,
            [success_rate |-> [num |-> total - entry.error_count, den |-> total],
             avg_latency_ms |-> ewma(entry.avg_latency_ms, metrics.latency_ms),
             error_count |-> errors, total_requests |-> total])

\* AIEngine::update_service_health: the service_metrics map afterwards
update_service_health(metrics) ==
    LET entry == EntryOr(service_metrics, metrics.endpoint, NewServiceHealth)
        total == entry.total_requests + 1
        errors == IF metrics.success THEN entry.error_count
                  ELSE entry.error_count + 1
    IN  Put(service_metrics, metrics.endpoint,
            [success_rate |-> [num |-> total - errors, den |-> total],
             avg_latency_ms |-> ewma(entry.avg_latency_ms, metrics.latency_ms),
             error_count |-> errors, total_requests |-> total])

\* record_request: history.push and the drain of the oldest entries
push_history(history_vec, metrics) ==
    LET pushed == Append(history_vec, metrics)
    IN  IF Len(pushed) > HistoryLimit
        THEN SubSeq(pushed, DrainCount + 1, Len(pushed))
        ELSE pushed

\* AIEngine::record_request
record_request(metrics) ==
    /\ Len(request_history) < MaxObs
    /\ request_history' = push_history(request_history, metrics)
    /\ service_metrics' = update_service_health(metrics)

\* start_health_checks, lines 78-109: the HealthStatus of endpoint afterwards
probe_status(endpoint, is_healthy) ==
    LET status == EntryOr(health_status, endpoint, NewHealthStatus)
    IN  IF is_healthy
        THEN [is_healthy |-> TRUE,
              consecutive_successes |-> status.consecutive_successes + 1,
              consecutive_failures |-> 0]
        ELSE [is_healthy |-> FALSE,
              consecutive_failures |-> status.consecutive_failures + 1,
              consecutive_successes |-> 0]

\* force_health_check, lines 197-212: the HealthStatus of endpoint afterwards
force_status(endpoint, is_healthy) ==
    LET status == EntryOr(health_status, endpoint, NewHealthStatus)
    IN  [status EXCEPT !.is_healthy = is_healthy]

\* ---------------------------------------------------------------- bounds
\* mark_endpoint_unhealthy is explored while the failure run is below MaxRun.
MaxRun == 3

\* history: the step was not a mark_endpoint_unhealthy call
NoMark == "none"

\* (mutant: the success run survives a manual mark)
mark_status_keeps_successes(status) ==
    [status EXCEPT !.is_healthy = FALSE,
                   !.consecutive_failures = @ + 1]

\* mark_endpoint_unhealthy, lines 175-177: the HealthStatus afterwards
mark_status(status) ==
    [status EXCEPT !.is_healthy = FALSE,
                   !.consecutive_failures = @ + 1,
                   !.consecutive_successes = 0]

\* HealthChecker::mark_endpoint_unhealthy
mark_endpoint_unhealthy(endpoint) ==
    /\ endpoint \in DOMAIN health_status =>
          health_status[endpoint].consecutive_failures < MaxRun
    /\ health_status' =
          IF endpoint \in DOMAIN health_status
          THEN [health_status EXCEPT ![endpoint] = mark_status(@)]
          ELSE health_status
    /\ health_call' = endpoint
    /\ UNCHANGED <<service_metrics, request_history, probe_at, force>>
    /\ UNCHANGED <<breaker, now, locals, history, limiter, front>>

\* HealthChecker::is_endpoint_healthy (the filter of get_healthy_endpoints)
is_endpoint_healthy(endpoint) ==
    IF endpoint \in DOMAIN health_status
    THEN health_status[endpoint].is_healthy
    ELSE TRUE

\* HealthChecker::get_healthy_endpoints: the list returned
get_healthy_endpoints(service_name) ==
    IF Configured(service_name)
    THEN SelectSeq(Endpoints, is_endpoint_healthy)
    ELSE <<>>

\* interval.tick().await returns: a pass over the endpoints begins
ProbeTick ==
    /\ probe_at = 0
    /\ probe_at' = 1
    /\ UNCHANGED <<health_status, service_metrics, request_history, force>>
    /\ health_call' = NoMark
    /\ UNCHANGED <<breaker, now, locals, history, limiter, front>>

\* (mutant: a failed probe ends the probe task)
ProbeEndpoint_stops_on_failure ==
    /\ probe_at >= 1
    /\ \E is_healthy \in BOOLEAN, response_time \in Latencies :
          LET endpoint == Endpoints[probe_at]
          IN  /\ health_status' =
                     Put(health_status, endpoint, probe_status(endpoint, is_healthy))
              /\ record_request(RequestMetrics(endpoint, response_time,
                     IF is_healthy THEN StatusOk ELSE StatusUnavailable, is_healthy))
              /\ probe_at' = IF ~is_healthy THEN -1
                             ELSE IF probe_at = Len(Endpoints) THEN 0
                             ELSE probe_at + 1
    /\ UNCHANGED force
    /\ health_call' = NoMark
    /\ UNCHANGED <<breaker, now, locals, history, limiter, front>>

\* start_health_checks: one endpoint of the pass
ProbeEndpoint ==
    /\ probe_at >= 1
    /\ \E is_healthy \in BOOLEAN, response_time \in Latencies :
          LET endpoint == Endpoints[probe_at]
          IN  /\ health_status' =
                     Put(health_status, endpoint, probe_status(endpoint, is_healthy))
              /\ record_request(RequestMetrics(endpoint, response_time,
                     IF is_healthy THEN StatusOk ELSE StatusUnavailable, is_healthy))
    /\ probe_at' = IF probe_at = Len(Endpoints) THEN 0 ELSE probe_at + 1
    /\ UNCHANGED force
    /\ health_call' = NoMark
    /\ UNCHANGED <<breaker, now, locals, history, limiter, front>>

\* force_health_check is called
ForceStart ==
    /\ force.service = "none"
    /\ \E service_name \in ServiceNames :
          force' = IF Configured(service_name)
                   THEN [service |-> service_name, index |-> 1]
                   ELSE [service |-> "none", index |-> 0]
    /\ UNCHANGED <<health_status, service_metrics, request_history, probe_at>>
    /\ health_call' = NoMark
    /\ UNCHANGED <<breaker, now, locals, history, limiter, front>>

\* force_health_check: one endpoint of the service
ForceEndpoint ==
    /\ force.service # "none"
    /\ \E is_healthy \in BOOLEAN :
          LET endpoint == Endpoints[force.index]
          IN  health_status' =
                  Put(health_status, endpoint, force_status(endpoint, is_healthy))
    /\ force' = IF force.index = Len(Endpoints)
                THEN [service |-> "none", index |-> 0]
                ELSE [force EXCEPT !.index = @ + 1]
    /\ UNCHANGED <<service_metrics, request_history, probe_at>>
    /\ health_call' = NoMark
    /\ UNCHANGED <<breaker, now, locals, history, limiter, front>>

\* proxy_request, lines 252-273: the outcome of a live request is recorded
LiveRequest ==
    /\ \E endpoint \in EndpointSet, outcome \in LiveOutcomes, latency \in Latencies :
          record_request(RequestMetrics(endpoint, latency,
                                        outcome.status_code, outcome.success))
    /\ UNCHANGED <<health_status, probe_at, force>>
    /\ health_call' = NoMark
    /\ UNCHANGED <<breaker, now, locals, history, limiter, front>>

HealthNext ==
    \/ ProbeTick
    \/ ProbeEndpoint
    \/ ForceStart
    \/ ForceEndpoint
    \/ LiveRequest

HealthSpec == Init /\ [][HealthNext]_vars

\* The writers of health_status: the periodic probe, forced checks and
\* manual marks.
StatusNext ==
    \/ ProbeTick
    \/ ProbeEndpoint
    \/ ForceStart
    \/ ForceEndpoint
    \/ \E endpoint \in EndpointSet : mark_endpoint_unhealthy(endpoint)

StatusSpec == Init /\ [][StatusNext]_vars

\* The probe loop once the explored number of observations is recorded: the
\* round goes on in the same way, whatever the probe's outcome; what it writes
\* is no longer tracked.
ProbeBeyond ==
    /\ probe_at >= 1
    /\ Len(request_history) >= MaxObs
    /\ probe_at' = IF probe_at = Len(Endpoints) THEN 0 ELSE probe_at + 1
    /\ health_call' = NoMark
    /\ UNCHANGED <<health_status, service_metrics, request_history, force>>
    /\ UNCHANGED <<breaker, now, locals, history, limiter, front>>

\* The probe task running for ever beside forced checks and manual marks.
ProbeLoopNext ==
    \/ ProbeTick
    \/ ProbeEndpoint
    \/ ProbeBeyond
    \/ ForceStart
    \/ ForceEndpoint
    \/ \E endpoint \in EndpointSet : mark_endpoint_unhealthy(endpoint)

\* The runtime keeps scheduling the spawned probe task: the interval fires
\* every 30 s, each GET returns within the client's 10 s timeout, and the
\* tokio locks are granted in arrival order.
ProbeLoopSpec ==
    /\ Init
    /\ [][ProbeLoopNext]_vars
    /\ WF_vars(ProbeTick)
    /\ WF_vars(ProbeEndpoint \/ ProbeBeyond)

\* A step that records one observation, and the observation it records.
Observes == request_history' # request_history
Observed == request_history'[Len(request_history')]

\* The numerator of the decimal fraction x = num / 10^exp at exponent e >= exp.
Scaled(x, e) == x.num * (10 ^ (e - x.exp))

\* C18: for every EndpointHealth record, under any interleaving of live request
\* outcomes and probe outcomes, error_count <= total_requests and, when
\* total_requests > 0, success_rate = 1 - error_count / total_requests.
C18_SuccessRate ==
    \A e \in DOMAIN service_metrics :
        LET m == service_metrics[e]
        IN  /\ m.error_count <= m.total_requests
            /\ m.total_requests > 0 =>
                  /\ m.success_rate.den > 0
                  /\ m.success_rate.num * m.total_requests =
                         (m.total_requests - m.error_count) * m.success_rate.den

\* C18 witness: an endpoint that was probed and also served a failed live
\* request has some, but not all, of its observations counted as errors.
C18_Witness ==
    \E e \in DOMAIN service_metrics :
        /\ e \in DOMAIN health_status
        /\ \E i \in 1..Len(request_history) :
              request_history[i].endpoint = e /\ request_history[i].status_code = 500
        /\ service_metrics[e].error_count >= 1
        /\ service_metrics[e].error_count < service_metrics[e].total_requests

\* C19: every observation recorded for an endpoint, by a probe (each probe of
\* an endpoint records one) or by a live request, updates its EWMA latency as
\* new = 0.1 * sample + 0.9 * prev, with prev = 0 for an endpoint that has no
\* record yet, so that after the first observation avg_latency = 0.1 * sample.
C19_Ewma ==
    [][/\ (probe_at >= 1 /\ probe_at' # probe_at) =>
            (Observes /\ Observed.endpoint = Endpoints[probe_at])
       /\ Observes =>
            LET e == Observed.endpoint
                sample == Observed.latency_ms
                first == e \notin DOMAIN service_metrics
                prev == IF first THEN [num |-> 0, exp |-> 0]
                        ELSE service_metrics[e].avg_latency_ms
                new == service_metrics'[e].avg_latency_ms
                at == IF new.exp > prev.exp + 1 THEN new.exp ELSE prev.exp + 1
            IN  /\ Scaled(new, at) =
                       sample * (10 ^ (at - 1)) + 9 * Scaled(prev, at - 1)
                /\ first => 10 * new.num = sample * (10 ^ new.exp)]_vars

\* C19 witness: an endpoint has a second-order average made of a probe's
\* sample and a live request's sample.
C19_Witness ==
    \E e \in DOMAIN service_metrics :
        /\ e \in DOMAIN health_status
        /\ \E i \in 1..Len(request_history) :
              request_history[i].endpoint = e /\ request_history[i].status_code = 500
        /\ service_metrics[e].total_requests = 2
        /\ service_metrics[e].avg_latency_ms.exp = 2
        /\ \E a, b \in Latencies :
              a # b /\ service_metrics[e].avg_latency_ms.num = 10 * a + 9 * b

\* C20: force_check(service) applies to each endpoint of the service the same
\* updates as one pass of the periodic probe: it sets is_healthy, increments
\* the matching consecutive-run counter and resets the other, and records one
\* observation with status 200 (healthy) or 503 (unhealthy).
C20_ForceCheckAsProbe ==
    [][(force.service # "none" /\ force' # force) =>
          LET endpoint == Endpoints[force.index]
              is_healthy == health_status'[endpoint].is_healthy
          IN  /\ health_status'[endpoint] = probe_status(endpoint, is_healthy)
              /\ Observes
              /\ Observed = RequestMetrics(endpoint, Observed.latency_ms,
                     IF is_healthy THEN StatusOk ELSE StatusUnavailable, is_healthy)]_vars

\* C21: for every HealthStatus record, after any sequence of periodic probes,
\* forced checks and mark_unhealthy calls, at most one of consecutive_failures
\* and consecutive_successes is nonzero.
C21_OneRunNonzero ==
    \A e \in DOMAIN health_status :
        \/ health_status[e].consecutive_failures = 0
        \/ health_status[e].consecutive_successes = 0

\* C21 witness: an endpoint that only ever answered its probes healthily (so
\* its success run was nonzero) has just been marked unhealthy.
C21_Witness ==
    /\ health_call \in DOMAIN health_status
    /\ health_call \in DOMAIN service_metrics
    /\ service_metrics[health_call].error_count = 0
    /\ health_status[health_call].consecutive_failures = 1
    /\ health_status[health_call].consecutive_successes = 0

\* C22: after mark_unhealthy(endpoint), for any configured endpoint including
\* one that has never been probed, the endpoint's flag is unhealthy, its
\* failure run has increased by one and healthy_endpoints(service) does not
\* contain it; it comes back into that list only by a later probe or forced
\* check that finds it healthy.
C22_MarkUnhealthy ==
    [][/\ health_call' \in EndpointSet =>
            LET e == health_call'
                before == EntryOr(health_status, e, NewHealthStatus)
            IN  /\ e \in DOMAIN health_status'
                /\ ~health_status'[e].is_healthy
                /\ health_status'[e].consecutive_failures =
                       before.consecutive_failures + 1
                /\ \A i \in 1..Len(get_healthy_endpoints("backend")') :
                       get_healthy_endpoints("backend")'[i] # e
       /\ \A e \in EndpointSet :
            (~is_endpoint_healthy(e) /\ is_endpoint_healthy(e)') =>
                (probe_at' # probe_at \/ force' # force)]_vars

\* C23: the health-probe task never terminates because a probe fails: whatever
\* the outcomes of the individual probes, every configured endpoint is probed
\* again in every later round, infinitely often.
C23_ProbedForever ==
    \A i \in 1..Len(Endpoints) : []<><<probe_at = i /\ probe_at' # i>>_vars

\* C23 witness: a round is past its first endpoint although every probe so far
\* has failed.
C23_Witness ==
    /\ probe_at = Len(Endpoints)
    /\ Len(request_history) >= Len(Endpoints) + 1
    /\ \A i \in 1..Len(request_history) : ~request_history[i].success

(***************************************************************************)
(* Part 4: endpoint selection (rust-ai-sidecar-proxy/src/ai.rs).           *)
(*                                                                         *)
(* select_endpoint reads service_metrics under its read lock for its whole *)
(* body, so a call is one step.  It collects the scores in a HashMap and   *)
(* takes the maximum over the map's iterator; the order in which a HashMap *)
(* is iterated is unspecified and differs from one map to the next (each   *)
(* map has its own hasher keys), so the order is an input of the step.     *)
(* Scores (f64 in the code) are exact fractions num/den.                   *)
(***************************************************************************)

\* The endpoints that lists are made of; "ep3" never has a record.
Candidates == {"ep1", "ep2", "ep3"}
\* The lists passed to select_endpoint: the empty list, every list without
\* repetition, and three lists that name an endpoint twice.
EndpointLists ==
    {list \in UNION {[1..n -> Candidates] : n \in 0..Cardinality(Candidates)} :
        \A i, j \in 1..Len(list) : list[i] = list[j] => i = j}
    \cup {<<"ep1", "ep1">>, <<"ep1", "ep2", "ep1">>, <<"ep3", "ep3", "ep1">>}
SeqRange(list) == {list[i] : i \in 1..Len(list)}

\* The orders in which a HashMap with the keys S can be iterated.
IterationOrders(S) ==
    {f \in [1..Cardinality(S) -> S] : \A i, j \in 1..Cardinality(S) : f[i] = f[j] => i = j}

\* a/b < c/d for a, c >= 0 and b, d > 0, by the integer parts and then the
\* reciprocals of the remainders (no product is formed)
RECURSIVE FracLess(_, _, _, _)
FracLess(a, b, c, d) ==
    IF a \div b # c \div d THEN a \div b < c \div d
    ELSE IF a % b = 0 \/ c % d = 0 THEN a % b = 0 /\ c % d # 0
    ELSE FracLess(d, c % d, b, a % b)

\* f64 comparison of two scores
Less(x, y) == FracLess(x.num, x.den, y.num, y.den)
Same(x, y) == ~Less(x, y) /\ ~Less(y, x)

\* the score of an endpoint without a ServiceHealth record: 0.5
ColdScore == [num |-> 1, den |-> 2]

\* AIEngine::calculate_endpoint_score
calculate_endpoint_score(h) ==
    LET scale == 10 ^ (h.avg_latency_ms.exp + 3)
        normalized_latency ==
            IF h.avg_latency_ms.num > 0
            THEN [num |-> scale, den |-> scale + h.avg_latency_ms.num]
            ELSE [num |-> 1, den |-> 1]
        score == [num |-> 6 * h.success_rate.num * normalized_latency.den
                          + 4 * normalized_latency.num * h.success_rate.den,
                  den |-> 10 * h.success_rate.den * normalized_latency.den]
    IN  IF score.num > score.den THEN [num |-> 1, den |-> 1]
        ELSE IF score.num < 0 THEN [num |-> 0, den |-> 1]
        ELSE score

\* select_endpoint, lines 102-106: the score entered for an endpoint
endpoint_score(endpoint) ==
    IF endpoint \in DOMAIN service_metrics
    THEN calculate_endpoint_score(service_metrics[endpoint])
    ELSE ColdScore

\* Iterator::max_by over the map's iterator: the later of two equal elements
\* is kept
RECURSIVE max_by(_, _)
max_by(order, best) ==
    IF order = <<>> THEN best
    ELSE max_by(Tail(order),
                IF Less(endpoint_score(Head(order)), endpoint_score(best))
                THEN best ELSE Head(order))

\* one insertion of the stable sort: x goes behind every element that does
\* not have a smaller score
RECURSIVE insert_descending(_, _)
insert_descending(sorted, x) ==
    IF sorted = <<>> THEN <<x>>
    ELSE IF Less(endpoint_score(Head(sorted)), endpoint_score(x))
         THEN <<x>> \o sorted
         ELSE <<Head(sorted)>> \o insert_descending(Tail(sorted), x)

\* fallback_with_scores.sort_by(|a, b| b.1.partial_cmp(&a.1)), a stable sort
RECURSIVE sort_descending(_, _)
sort_descending(list, sorted) ==
    IF list = <<>> THEN sorted
    ELSE sort_descending(Tail(list), insert_descending(sorted, Head(list)))

\* (mutant: the best endpoint is not filtered out of the fallback list)
fallback_of_with_best(order, best) == sort_descending(order, <<>>)

\* select_endpoint, lines 116-123
fallback_of(order, best) ==
    sort_descending(SelectSeq(order, LAMBDA e : e # best), <<>>)

\* decision before any call
NoDecision ==
    [input |-> <<>>, selected_endpoint |-> "none",
     confidence |-> [num |-> 0, den |-> 1], fallback_endpoints |-> <<>>]

\* AIEngine::select_endpoint.  The result does not depend on earlier calls, so
\* a second call is only explored with the list of the first.
\* The AIDecision values a select_endpoint call over this list can return:
\* one for each order in which the score map can be iterated.
decisions(available_endpoints) ==
    IF available_endpoints = <<>>
    THEN {[input |-> available_endpoints, selected_endpoint |-> "",
           confidence |-> [num |-> 0, den |-> 1],
           fallback_endpoints |-> <<>>]}
    ELSE {LET best_endpoint == max_by(Tail(order), Head(order))
          IN  [input |-> available_endpoints,
               selected_endpoint |-> best_endpoint,
               confidence |-> endpoint_score(best_endpoint),
               fallback_endpoints |-> fallback_of(order, best_endpoint)] :
             order \in IterationOrders(SeqRange(available_endpoints))}

select_endpoint(available_endpoints) ==
    /\ decision = NoDecision \/ decision.input = available_endpoints
    /\ decision' \in decisions(available_endpoints)
    /\ UNCHANGED <<breaker, now, locals, history, limiter, health, balancer, edge, sync>>

\* proxy_request, lines 265-273: the outcome of a request is recorded; the
\* decision taken before it is no longer one for the current health snapshot
RecordOutcome ==
    /\ \E endpoint \in EndpointSet, success \in BOOLEAN, latency \in Latencies :
          record_request(RequestMetrics(endpoint, latency,
              IF success THEN StatusOk ELSE StatusUnavailable, success))
    /\ decision' = NoDecision
    /\ UNCHANGED <<health_status, probe_at, force, health_call>>
    /\ UNCHANGED <<breaker, now, locals, history, limiter, balancer, edge, sync>>

SelectNext ==
    \/ \E available_endpoints \in EndpointLists : select_endpoint(available_endpoints)
    \/ RecordOutcome

SelectSpec == Init /\ [][SelectNext]_vars

\* The latest step was a select_endpoint call with a non-empty list (and no
\* request outcome has been recorded since).
Selected == decision.input # <<>>

NoRepetition(list) == \A i, j \in 1..Len(list) : list[i] = list[j] => i = j

\* C24: for every select call with a non-empty endpoint list, the chosen
\* endpoint is a member of the input list and the fallback list holds every
\* other input endpoint exactly once and nothing else; for an input without
\* repetition it is a permutation of the remaining input endpoints.
C24_ChosenAndFallback ==
    Selected =>
        /\ decision.selected_endpoint \in SeqRange(decision.input)
        /\ NoRepetition(decision.fallback_endpoints)
        /\ SeqRange(decision.fallback_endpoints) =
               SeqRange(decision.input) \ {decision.selected_endpoint}
        /\ NoRepetition(decision.input) =>
               Len(decision.fallback_endpoints) = Len(decision.input) - 1

\* C24 witness: a call with three different endpoints, two of them with
\* records, returned two fallbacks.
C24_Witness ==
    /\ Selected
    /\ Len(decision.input) = 3 /\ NoRepetition(decision.input)
    /\ Len(decision.fallback_endpoints) = 2
    /\ DOMAIN service_metrics = EndpointSet

\* C25: select returns an endpoint whose score is the maximum over the input
\* list, confidence equals that score, and when several endpoints share the
\* maximum score it returns the one that comes first in the input list.
C25_MaxScoreFirstOnTie ==
    Selected =>
        LET best == endpoint_score(decision.selected_endpoint)
            ties == {i \in 1..Len(decision.input) :
                        Same(endpoint_score(decision.input[i]), best)}
        IN  /\ \A e \in SeqRange(decision.input) : ~Less(best, endpoint_score(e))
            /\ Same(decision.confidence, best)
            /\ \A i \in ties :
                  (\A j \in ties : i <= j) => decision.input[i] = decision.selected_endpoint

\* C26: select is deterministic in the health snapshot: two select calls with
\* the same endpoint list and no health update between them return the same
\* chosen endpoint, also when endpoints have equal scores.
C26_SameSnapshotSameChoice ==
    [][(/\ Selected
        /\ decision'.input = decision.input
        /\ decision'.selected_endpoint # "none") =>
            decision'.selected_endpoint = decision.selected_endpoint]_vars

(***************************************************************************)
(* Part 5: the load balancer (rust-ai-sidecar-proxy/src/load_balancer.rs). *)
(*                                                                         *)
(* round_robin_select holds the write lock on round_robin_counters for its *)
(* whole body: a select is one step.  The counters are AtomicUsize; they   *)
(* are explored far below the value at which they wrap.                    *)
(***************************************************************************)

\* ---------------------------------------------------------------- bounds
\* A service's counter is explored up to MaxSelects.
MaxSelects == 4

\* service names passed to the balancer
Services == {"service-a", "service-b"}
\* Option::None
NoEndpoint == "None"

\* (mutant: the index is taken from the incremented counter)
round_robin_index_after_increment(counter, len) == (counter + 1) % len

\* counter.fetch_add(1, Relaxed) % endpoints.len()
round_robin_index(counter, len) == counter % len

\* history: the selects made in a row for one service and one list (selects
\* for other services may come between them)
RunAfterSelect(service_name, endpoints, selected) ==
    IF /\ lb_run.service = service_name
       /\ lb_run.endpoints = endpoints
       /\ Len(lb_run.selected) < Len(endpoints)
    THEN [lb_run EXCEPT !.selected = Append(@, selected)]
    ELSE IF \/ lb_run.service \in {"none", service_name}
            \/ Len(lb_run.selected) = Len(lb_run.endpoints)
         THEN [service |-> service_name, endpoints |-> endpoints,
               fresh |-> service_name \notin DOMAIN round_robin_counters,
               selected |-> <<selected>>]
         ELSE lb_run

\* LoadBalancer::round_robin_select
round_robin_select(service_name, endpoints) ==
    LET counter == EntryOr(round_robin_counters, service_name, 0)
        index == round_robin_index(counter, Len(endpoints))
        selected == endpoints[index + 1]
    IN  /\ counter < MaxSelects
        /\ round_robin_counters' =
               Put(round_robin_counters, service_name, fetch_add(counter))
        /\ lb_call' = [service |-> service_name, endpoints |-> endpoints,
                       selected |-> selected]
        /\ lb_run' = RunAfterSelect(service_name, endpoints, selected)

\* LoadBalancer::select_endpoint with the RoundRobin strategy (the strategy of
\* LoadBalancer::new; WeightedRoundRobin takes the same path)
lb_select_endpoint(service_name, endpoints) ==
    /\ IF endpoints = <<>>
       THEN /\ lb_call' = [service |-> service_name, endpoints |-> endpoints,
                           selected |-> NoEndpoint]
            /\ UNCHANGED <<round_robin_counters, lb_run>>
       ELSE round_robin_select(service_name, endpoints)
    /\ UNCHANGED <<connection_counts, conn_call>>
    /\ UNCHANGED <<breaker, now, locals, history, limiter, health, decision, edge, sync>>

BalancerNext ==
    \E service_name \in Services, endpoints \in EndpointLists :
        lb_select_endpoint(service_name, endpoints)

BalancerSpec == Init /\ [][BalancerNext]_vars

\* The element that follows x in list, cyclically (list names x once).
NextInList(list, x) ==
    LET i == CHOOSE j \in 1..Len(list) : list[j] = x
    IN  list[(i % Len(list)) + 1]

\* C27: with the RoundRobin strategy each service has its own counter starting
\* at 0; every select returns endpoints[counter mod |endpoints|] and then
\* increments that service's counter by one and no other service's; so k
\* selects in a row over one list of k endpoints return each endpoint exactly
\* once, following the list order (from its first element when the counter is
\* new).
C27_RoundRobin ==
    [][/\ round_robin_counters' # round_robin_counters =>
            LET service_name == lb_call'.service
                endpoints == lb_call'.endpoints
                counter == IF service_name \in DOMAIN round_robin_counters
                           THEN round_robin_counters[service_name] ELSE 0
            IN  /\ endpoints # <<>>
                /\ lb_call'.selected = endpoints[(counter % Len(endpoints)) + 1]
                /\ DOMAIN round_robin_counters' =
                       DOMAIN round_robin_counters \cup {service_name}
                /\ round_robin_counters'[service_name] = counter + 1
                /\ \A other \in DOMAIN round_robin_counters \ {service_name} :
                       round_robin_counters'[other] = round_robin_counters[other]
       /\ (/\ Len(lb_run'.selected) = Len(lb_run'.endpoints)
           /\ NoRepetition(lb_run'.endpoints)) =>
            /\ NoRepetition(lb_run'.selected)
            /\ SeqRange(lb_run'.selected) = SeqRange(lb_run'.endpoints)
            /\ \A i \in 1..(Len(lb_run'.selected) - 1) :
                   lb_run'.selected[i + 1] =
                       NextInList(lb_run'.endpoints, lb_run'.selected[i])
            /\ lb_run'.fresh => lb_run'.selected = lb_run'.endpoints]_vars

\* C27 witness: three selects in a row for one service over a list of three
\* endpoints, started at a counter that was not new, with a select for the
\* other service made meanwhile.
C27_Witness ==
    /\ Len(lb_run.endpoints) = 3 /\ NoRepetition(lb_run.endpoints)
    /\ Len(lb_run.selected) = 3
    /\ ~lb_run.fresh
    /\ lb_run.selected # lb_run.endpoints
    /\ DOMAIN round_robin_counters = Services
    /\ round_robin_counters[lb_run.service] = MaxSelects

\* ------------------------------------------------- the connection counters
\* The connection counters are AtomicUsize.  increment_connections holds the
\* write lock on connection_counts and the other calls the read lock; each
\* call makes one atomic access to one counter, so a call is one step.

\* The width of usize, in bits, as explored.
UsizeBits == 3
\* usize::MAX
UsizeMax == 2 ^ UsizeBits - 1

\* AtomicUsize::fetch_add(1, Relaxed): the value stored (wraps around)
usize_fetch_add(c) == (c + 1) % (UsizeMax + 1)
\* AtomicUsize::fetch_sub(1, Relaxed): the value stored (wraps around)
usize_fetch_sub(c) == (c + UsizeMax) % (UsizeMax + 1)

BalancerFrame ==
    UNCHANGED <<round_robin_counters, lb_call, lb_run,
                breaker, now, locals, history, limiter, health, decision, edge, sync>>

\* LoadBalancer::increment_connections
increment_connections(endpoint) ==
    LET counter == EntryOr(connection_counts, endpoint, 0)
    IN  /\ connection_counts' = Put(connection_counts, endpoint, usize_fetch_add(counter))
        /\ conn_call' = [op |-> "increment", endpoints |-> <<endpoint>>, result |-> 0]
        /\ BalancerFrame

\* LoadBalancer::decrement_connections
decrement_connections(endpoint) ==
    /\ connection_counts' =
           IF endpoint \in DOMAIN connection_counts
           THEN [connection_counts EXCEPT ![endpoint] = usize_fetch_sub(@)]
           ELSE connection_counts
    /\ conn_call' = [op |-> "decrement", endpoints |-> <<endpoint>>, result |-> 0]
    /\ BalancerFrame

\* get_connection_count: the value returned
connection_count(endpoint) == EntryOr(connection_counts, endpoint, 0)

\* LoadBalancer::get_connection_count
get_connection_count(endpoint) ==
    /\ conn_call' = [op |-> "count", endpoints |-> <<endpoint>>,
                     result |-> connection_count(endpoint)]
    /\ UNCHANGED connection_counts
    /\ BalancerFrame

\* least_connections_select: the loop from endpoints[i] on, with the minimum
\* and the endpoint found so far
RECURSIVE least_connections_scan(_, _, _, _)
least_connections_scan(endpoints, i, min_connections, selected_endpoint) ==
    IF i > Len(endpoints)
    THEN selected_endpoint
    ELSE LET connections == connection_count(endpoints[i])
         IN  IF connections < min_connections
             THEN least_connections_scan(endpoints, i + 1, connections, endpoints[i])
             ELSE least_connections_scan(endpoints, i + 1, min_connections,
                                         selected_endpoint)

\* LoadBalancer::least_connections_select (select_endpoint with the
\* LeastConnections strategy calls it for a non-empty list)
least_connections_select(endpoints) ==
    /\ conn_call' = [op |-> "select", endpoints |-> endpoints,
                     result |-> least_connections_scan(endpoints, 1, UsizeMax,
                                                       NoEndpoint)]
    /\ UNCHANGED connection_counts
    /\ BalancerFrame

ConnectionsNext ==
    \/ \E endpoint \in Candidates : increment_connections(endpoint)
    \/ \E endpoint \in Candidates : decrement_connections(endpoint)
    \/ \E endpoint \in Candidates : get_connection_count(endpoint)
    \/ \E endpoints \in EndpointLists \ {<<>>} : least_connections_select(endpoints)

ConnectionsSpec == Init /\ [][ConnectionsNext]_vars

\* C39: after any sequence of increment_connections and decrement_connections
\* calls, a decrement_connections call for an endpoint whose connection count
\* is 0 leaves get_connection_count at 0: the count does not wrap below zero.
C39_DecrementAtZeroStaysZero ==
    [][\A endpoint \in Candidates :
          (/\ conn_call'.op = "decrement"
           /\ conn_call'.endpoints = <<endpoint>>
           /\ connection_count(endpoint) = 0) =>
              EntryOr(connection_counts', endpoint, 0) = 0]_vars


\* ======================================================================
\* Part 6.  The metrics collector (metrics.rs)
\* ======================================================================

\* The value or_insert puts under an endpoint that has no entry yet.  (The
\* wall-clock stamp last_request_time is left out, as is the timestamp of
\* RequestMetrics: nothing reads either.)
NewEndpointMetrics ==
    [total_requests |-> 0, successful_requests |-> 0, failed_requests |-> 0,
     avg_latency_ms |-> [num |-> 0, exp |-> 0]]

NotRecording == [at |-> "idle"]

\* self.request_counter.inc(): the first statement of record_request.  The
\* counter is an atomic of its own; no lock is held.
MetricsCount(t) ==
    /\ recording[t] = NotRecording
    /\ request_counter < MaxObs
    /\ \E endpoint \in EndpointSet, latency_ms \in Latencies, success \in BOOLEAN :
          recording' = [recording EXCEPT ![t] =
              [at |-> "observe", endpoint |-> endpoint,
               latency_ms |-> latency_ms, success |-> success]]
    /\ request_counter' = request_counter + 1
    /\ UNCHANGED <<request_duration, endpoint_metrics, exposition>>
    /\ UNCHANGED <<breaker, now, locals, history, limiter, health, decision, balancer,
                   dispatch, sync>>

\* self.request_duration.observe(latency_ms as f64 / 1000.0): the second
\* statement, another atomic update, of the histogram this time.
MetricsObserve(t) ==
    /\ recording[t].at = "observe"
    /\ request_duration' =
          [sample_count |-> request_duration.sample_count + 1,
           sample_sum_ms |-> request_duration.sample_sum_ms + recording[t].latency_ms]
    /\ recording' = [recording EXCEPT ![t].at = "write"]
    /\ UNCHANGED <<request_counter, endpoint_metrics, exposition>>
    /\ UNCHANGED <<breaker, now, locals, history, limiter, health, decision, balancer,
                   dispatch, sync>>

\* The rest of record_request, under the write lock of endpoint_metrics.
update_endpoint_metrics(endpoint, latency_ms, success) ==
    LET endpoint_metric == EntryOr(endpoint_metrics, endpoint, NewEndpointMetrics)
    IN  Put(endpoint_metrics, endpoint,
            [total_requests |-> endpoint_metric.total_requests + 1,
             successful_requests |-> endpoint_metric.successful_requests
                                     + (IF success THEN 1 ELSE 0),
             failed_requests |-> endpoint_metric.failed_requests
                                 + (IF success THEN 0 ELSE 1),
             avg_latency_ms |-> ewma(endpoint_metric.avg_latency_ms, latency_ms)])

MetricsWrite(t) ==
    /\ recording[t].at = "write"
    /\ endpoint_metrics' = update_endpoint_metrics(recording[t].endpoint,
                               recording[t].latency_ms, recording[t].success)
    /\ recording' = [recording EXCEPT ![t] = NotRecording]
    /\ UNCHANGED <<request_counter, request_duration, exposition>>
    /\ UNCHANGED <<breaker, now, locals, history, limiter, health, decision, balancer,
                   dispatch, sync>>

\* get_prometheus_metrics, first half: self.registry.gather() reads the
\* registered collectors.  (Taken here as one snapshot of both.)
MetricsGather ==
    /\ exposition.at = "idle"
    /\ exposition' = [at |-> "gathered", request_counter |-> request_counter,
                      sample_count |-> request_duration.sample_count,
                      endpoints |-> EmptyMap]
    /\ UNCHANGED <<request_counter, request_duration, endpoint_metrics, recording>>
    /\ UNCHANGED <<breaker, now, locals, history, limiter, health, decision, balancer,
                   dispatch, sync>>

\* get_prometheus_metrics, second half: the per-endpoint lines, written under
\* the read lock of endpoint_metrics.
MetricsAppend ==
    /\ exposition.at = "gathered"
    /\ exposition' = [exposition EXCEPT !.at = "idle", !.endpoints = endpoint_metrics]
    /\ UNCHANGED <<request_counter, request_duration, endpoint_metrics, recording>>
    /\ UNCHANGED <<breaker, now, locals, history, limiter, health, decision, balancer,
                   dispatch, sync>>

MetricsNext ==
    \/ \E t \in Tasks : MetricsCount(t)
    \/ \E t \in Tasks : MetricsObserve(t)
    \/ \E t \in Tasks : MetricsWrite(t)
    \/ MetricsGather
    \/ MetricsAppend

MetricsSpec == Init /\ [][MetricsNext]_vars

\* C28: whenever the metrics are read, concurrent record_request calls or
\* not, the histogram's total observation count (its +Inf bucket) equals
\* the total request counter.  (MetricsSpec)
C28_HistogramCountIsCounter ==
    exposition.sample_count = exposition.request_counter


\* ======================================================================
\* Part 7.  The request dispatcher (proxy.rs)
\* ======================================================================

\* The upstream calls one exploration of the dispatcher makes.
MaxUpstream == 2

StatusNotFound == 404
StatusInternalError == 500

\* Config::new(): two services, one endpoint each.
upstream_services ==
    [s \in {"service-a", "service-b"} |->
        [name |-> s, endpoints |-> IF s = "service-a" THEN <<"ep1">> ELSE <<"ep2">>]]

\* A path is the sequence of its segments after the first "/":
\* "/api/b/items" is <<"api", "b", "items">>, "/" is <<"">>, "//api/b" is
\* <<"", "api", "b">>.
Paths ==
    {<<"health">>, <<"metrics">>,
     <<"admin", "health">>, <<"admin", "status">>, <<"admin", "users">>,
     <<"administrator">>,
     <<"api", "b", "items">>, <<"api", "c">>, <<"api">>, <<"api", "">>,
     <<"orders">>, <<"", "api", "b">>}

\* path.starts_with("/admin"), over the first segments of Paths
starts_with_admin(path) == Head(path) \in {"admin", "administrator"}

\* path.trim_start_matches('/').split('/'): leading empty segments go; the
\* split of the empty string is one empty part.
RECURSIVE trim_start_matches(_)
trim_start_matches(path) ==
    IF path # <<>> /\ Head(path) = "" THEN trim_start_matches(Tail(path)) ELSE path

\* (mutant: a first segment "api" is enough)
extract_service_name_any_api(path) ==
    LET trimmed == trim_start_matches(path)
        parts == IF trimmed = <<>> THEN <<"">> ELSE trimmed
    IN  IF parts[1] = "api"
        THEN "service-" \o (IF Len(parts) > 1 THEN parts[2] ELSE "")
        ELSE "service-a"

extract_service_name(path) ==
    LET trimmed == trim_start_matches(path)
        parts == IF trimmed = <<>> THEN <<"">> ELSE trimmed
    IN  IF parts = <<>> THEN "default"
        ELSE IF parts[1] = "api" /\ Len(parts) > 1
             THEN "service-" \o parts[2]
             ELSE "service-a"

\* admin_handler: the status of its response
admin_handler(path) ==
    IF path = <<"admin", "health">> \/ path = <<"admin", "status">>
    THEN StatusOk
    ELSE StatusNotFound

\* ---- one CircuitBreaker of the map, its calls made one at a time

reset_due(b) ==
    IF b.last_failure_time # None
    THEN now - b.last_failure_time >= Timeout
    ELSE FALSE

\* what is_open() returns
is_open_of(b) == b.state = Open /\ ~reset_due(b)

\* (mutant: a rejected admission is stamped as a failure)
after_is_open_stamps_rejection(b) ==
    IF b.state = Open
    THEN IF reset_due(b)
         THEN [b EXCEPT !.state = HalfOpen, !.success_count = 0]
         ELSE [b EXCEPT !.last_failure_time = now]
    ELSE b

\* the breaker is_open() leaves behind
after_is_open(b) ==
    IF b.state = Open /\ reset_due(b)
    THEN [b EXCEPT !.state = HalfOpen, !.success_count = 0]
    ELSE b

after_record_success(b) ==
    CASE b.state = Closed -> [b EXCEPT !.failure_count = 0]
      [] b.state = HalfOpen ->
            IF reaches_success_threshold(b.success_count + 1)
            THEN [b EXCEPT !.state = Closed, !.failure_count = 0, !.success_count = 0]
            ELSE [b EXCEPT !.success_count = b.success_count + 1]
      [] OTHER -> b

after_record_failure(b) ==
    CASE b.state = Closed ->
            [b EXCEPT !.failure_count = b.failure_count + 1,
                      !.last_failure_time = now,
                      !.state = IF reaches_failure_threshold(b.failure_count + 1)
                                THEN Open ELSE b.state]
      [] b.state = HalfOpen -> [b EXCEPT !.state = Open]
      [] OTHER -> [b EXCEPT !.last_failure_time = now]

\* ---- the dispatcher

\* What the dispatcher leaves alone in every step.
Backstage ==
    UNCHANGED <<breaker, locals, history, limiter, balancer,
                health_status, probe_at, force, health_call, recording, flight, sync>>

\* (found, reported and arrived are history: the records the request found
\* when it reached the upstream, what it told the breaker, and the service's
\* breaker as it was when the request arrived.)
NewRequest(path) ==
    [at |-> "idle", path |-> path, service |-> "none", open |-> FALSE,
     endpoint |-> "none", latency_ms |-> 0, success |-> FALSE,
     status |-> 0, upstream_calls |-> 0,
     found |-> [total_requests |-> 0, request_counter |-> 0,
                sample_count |-> 0, endpoint_total |-> 0],
     reported |-> "none",
     arrived |-> [state |-> Closed, failure_count |-> 0,
                  success_count |-> 0, last_failure_time |-> None]]

\* The records of the chosen endpoint, as a request finds them.
Found(endpoint) ==
    [total_requests |-> EntryOr(service_metrics, endpoint, NewServiceHealth).total_requests,
     request_counter |-> request_counter,
     sample_count |-> request_duration.sample_count,
     endpoint_total |-> EntryOr(endpoint_metrics, endpoint, NewEndpointMetrics).total_requests]

\* Ok(response) with this status
Answer(req, status) == [req EXCEPT !.at = "answered", !.status = status]

Finished == {"idle", "answered", "failed", "cancelled"}

\* handle_request, up to the call of proxy_request
handle_request(path) ==
    /\ request.at \in Finished
    /\ IF path = <<"health">>
       THEN /\ request' = Answer(NewRequest(path), StatusOk)
            /\ UNCHANGED exposition
       ELSE IF path = <<"metrics">>
       THEN /\ request' = Answer(NewRequest(path), StatusOk)
            /\ UNCHANGED exposition
       ELSE IF starts_with_admin(path)
       THEN /\ request' = Answer(NewRequest(path), admin_handler(path))
            /\ UNCHANGED exposition
       ELSE LET service_name == extract_service_name(path)
            IN  /\ IF service_name \in DOMAIN upstream_services
                   THEN request' = [NewRequest(path) EXCEPT !.at = "admit",
                                       !.service = upstream_services[service_name].name,
                                       !.arrived = circuit_breakers[service_name]]
                   ELSE request' = Answer(NewRequest(path), StatusNotFound)
                /\ UNCHANGED exposition
    /\ UNCHANGED <<now, circuit_breakers, decision, service_metrics, request_history,
                   request_counter, request_duration, endpoint_metrics>>
    /\ Backstage

\* proxy_request: circuit_breaker.is_open().await and the 503 it can end in
Admit ==
    /\ request.at = "admit"
    /\ LET b == circuit_breakers[request.service]
           open == is_open_of(b)
       IN  /\ circuit_breakers' = [circuit_breakers EXCEPT ![request.service] =
                                      after_is_open(b)]
           /\ request' = [(IF open THEN Answer(request, StatusUnavailable)
                                   ELSE [request EXCEPT !.at = "select"])
                             EXCEPT !.open = open]
    /\ UNCHANGED <<now, decision, service_metrics, request_history,
                   request_counter, request_duration, endpoint_metrics, exposition>>
    /\ Backstage

\* proxy_request: ai_engine.select_endpoint(..).await and the empty answer
Select ==
    /\ request.at = "select"
    /\ decision' \in decisions(upstream_services[request.service].endpoints)
    /\ IF decision'.selected_endpoint = ""
       THEN request' = Answer(request, StatusUnavailable)
       ELSE request' = [request EXCEPT !.at = "prepare",
                                       !.endpoint = decision'.selected_endpoint]
    /\ UNCHANGED <<now, circuit_breakers, service_metrics, request_history,
                   request_counter, request_duration, endpoint_metrics, exposition>>
    /\ Backstage

\* proxy_request: the client is built (an error answers 500), then the body
\* is collected (an error leaves through `?` with no response).
Prepare ==
    /\ request.at = "prepare"
    /\ \E result \in {"ready", "no client", "body error"} :
          request' = CASE result = "ready" -> [request EXCEPT !.at = "send"]
                       [] result = "no client" -> Answer(request, StatusInternalError)
                       [] OTHER -> [request EXCEPT !.at = "failed"]
    /\ UNCHANGED <<now, circuit_breakers, decision, service_metrics, request_history,
                   request_counter, request_duration, endpoint_metrics, exposition>>
    /\ Backstage

\* (mutant: every status below 500 is a success)
is_success_below_500(status) == status \in 200..499

\* status.is_success()
is_success(status) == status \in 200..299

\* start_time.elapsed().as_millis(), when the upstream has answered
Elapsed == {30}

\* What upstream_req.send().await can come back with: a response with its
\* status (a 2xx, a 404 for the statuses between 300 and 499, a 5xx), or a
\* transport error, which becomes (503, false) and so the same as a 503 of
\* the upstream.
UpstreamResults ==
    {[status |-> code, success |-> is_success(code)] :
        code \in {StatusOk, StatusNotFound, StatusUnavailable}}
        \cup {[status |-> StatusUnavailable, success |-> FALSE]}

\* (mutant: a failed attempt is followed by one on a fallback endpoint)
Send_retries_on_failure ==
    /\ request.at = "send"
    /\ Len(request_history) < MaxUpstream
    /\ \E result \in UpstreamResults, latency_ms \in Elapsed :
          request' = [request EXCEPT !.at = "record", !.status = result.status,
                         !.success = result.success, !.latency_ms = latency_ms,
                         !.found = Found(request.endpoint),
                         !.upstream_calls = request.upstream_calls
                                            + (IF result.success THEN 1 ELSE 2)]
    /\ UNCHANGED <<now, circuit_breakers, decision, service_metrics, request_history,
                   request_counter, request_duration, endpoint_metrics, exposition>>
    /\ Backstage

Send ==
    /\ request.at = "send"
    /\ Len(request_history) < MaxUpstream
    /\ \E result \in UpstreamResults, latency_ms \in Elapsed :
          request' = [request EXCEPT !.at = "record", !.status = result.status,
                         !.success = result.success, !.latency_ms = latency_ms,
                         !.found = Found(request.endpoint),
                         !.upstream_calls = request.upstream_calls + 1]
    /\ UNCHANGED <<now, circuit_breakers, decision, service_metrics, request_history,
                   request_counter, request_duration, endpoint_metrics, exposition>>
    /\ Backstage

\* The client goes away while upstream_req.send() is in flight: the
\* connection ends and the future of handle_request is dropped where it
\* stands.  Nothing of proxy_request runs after that.
Cancel ==
    /\ request.at = "send"
    /\ request' = [request EXCEPT !.at = "cancelled"]
    /\ UNCHANGED <<now, circuit_breakers, decision, service_metrics, request_history,
                   request_counter, request_duration, endpoint_metrics, exposition>>
    /\ Backstage

\* ai_engine.record_request(request_metrics).await
RecordHealth ==
    /\ request.at = "record"
    /\ record_request(RequestMetrics(request.endpoint, request.latency_ms,
                                     request.status, request.success))
    /\ request' = [request EXCEPT !.at = "metrics"]
    /\ UNCHANGED <<now, circuit_breakers, decision,
                   request_counter, request_duration, endpoint_metrics, exposition>>
    /\ Backstage

\* metrics.record_request(endpoint, elapsed, success).await
RecordMetrics ==
    /\ request.at = "metrics"
    /\ request_counter' = request_counter + 1
    /\ request_duration' =
          [sample_count |-> request_duration.sample_count + 1,
           sample_sum_ms |-> request_duration.sample_sum_ms + request.latency_ms]
    /\ endpoint_metrics' = update_endpoint_metrics(request.endpoint,
                               request.latency_ms, request.success)
    /\ request' = [request EXCEPT !.at = "breaker"]
    /\ UNCHANGED <<now, circuit_breakers, decision, service_metrics, request_history,
                   exposition>>
    /\ Backstage

\* circuit_breaker.record_success() / record_failure(), then Ok(response)
RecordBreaker ==
    /\ request.at = "breaker"
    /\ circuit_breakers' = [circuit_breakers EXCEPT ![request.service] =
          IF request.success THEN after_record_success(circuit_breakers[request.service])
          ELSE after_record_failure(circuit_breakers[request.service])]
    /\ request' = [Answer(request, request.status) EXCEPT
                       !.reported = IF request.success THEN "success" ELSE "failure"]
    /\ UNCHANGED <<now, decision, service_metrics, request_history,
                   request_counter, request_duration, endpoint_metrics, exposition>>
    /\ Backstage

DispatchTick ==
    /\ now < MaxTime
    /\ now' = now + 1
    /\ UNCHANGED <<dispatch, decision, service_metrics, request_history, collector, sync>>
    /\ Backstage

DispatchNext ==
    \/ \E path \in Paths : handle_request(path)
    \/ Admit
    \/ Select
    \/ Prepare
    \/ Send
    \/ Cancel
    \/ RecordHealth
    \/ RecordMetrics
    \/ RecordBreaker
    \/ DispatchTick

DispatchSpec == Init /\ [][DispatchNext]_vars


\* A step in which handle_request takes up a request.
Arrives == request.at \in Finished /\ request' # request

\* What a routing error must leave alone: the breakers, the health table and
\* the metrics.
RecordsUnchanged ==
    UNCHANGED <<circuit_breakers, service_metrics, request_history,
                request_counter, request_duration, endpoint_metrics>>

\* C29: every request whose path is not one of /health, /metrics,
\* /admin/health, /admin/status is resolved to a service by the path rule
\* (first segment api with a second segment gives service-{second}, anything
\* else service-a); when that service is not configured the response is 404
\* and no breaker, health-table or metrics state changes.  (DispatchSpec)
C29_ResolvedByPathRule ==
    [][(/\ Arrives
        /\ request'.path \notin {<<"health">>, <<"metrics">>,
                                 <<"admin", "health">>, <<"admin", "status">>})
        => LET segments == trim_start_matches(request'.path)
               resolved == IF Len(segments) > 1 /\ segments[1] = "api"
                           THEN "service-" \o segments[2]
                           ELSE "service-a"
           IN  IF resolved \in DOMAIN upstream_services
               THEN request'.at = "admit" /\ request'.service = resolved
               ELSE /\ request'.at = "answered"
                    /\ request'.status = StatusNotFound
                    /\ RecordsUnchanged]_vars

\* C29, amended: the same for every request whose path is neither /health nor
\* /metrics and does not begin with /admin.  (DispatchSpec)
C29_ResolvedUnlessAdmin ==
    [][(/\ Arrives
        /\ request'.path \notin {<<"health">>, <<"metrics">>}
        /\ ~starts_with_admin(request'.path))
        => LET segments == trim_start_matches(request'.path)
               resolved == IF Len(segments) > 1 /\ segments[1] = "api"
                           THEN "service-" \o segments[2]
                           ELSE "service-a"
           IN  IF resolved \in DOMAIN upstream_services
               THEN request'.at = "admit" /\ request'.service = resolved
               ELSE /\ request'.at = "answered"
                    /\ request'.status = StatusNotFound
                    /\ RecordsUnchanged]_vars

\* C29 witness: a request for a service that is not configured was answered
\* 404 when the health table, the metrics and a breaker already held records.
C29_Witness ==
    /\ request.at = "answered"
    /\ request.path = <<"api", "c">>
    /\ request.status = StatusNotFound
    /\ request_history # <<>>
    /\ request_counter > 0
    /\ \E s \in DOMAIN circuit_breakers : circuit_breakers[s].failure_count > 0

\* C30: when the service's breaker reports open at admission, the dispatcher
\* answers 503, selects no endpoint, calls no upstream, and records nothing to
\* the health table, the metrics or the breaker.  (DispatchSpec)
C30_OpenBreakerRejects ==
    [][(request.at = "admit" /\ request'.open)
        => /\ request'.at = "answered"
           /\ request'.status = StatusUnavailable
           /\ request'.endpoint = "none"
           /\ request'.upstream_calls = 0
           /\ UNCHANGED decision
           /\ RecordsUnchanged]_vars

\* C30 witness: a request was turned away by an open breaker some time after
\* the failure that opened it.
C30_Witness ==
    /\ request.at = "answered"
    /\ request.open
    /\ request.status = StatusUnavailable
    /\ circuit_breakers[request.service].state = Open
    /\ now > circuit_breakers[request.service].last_failure_time


\* A step in which the response of a request that reached the upstream is
\* returned.
Responds == request.at # "answered" /\ request'.at = "answered"
                /\ request'.upstream_calls > 0

\* C31: a request that reaches the upstream makes exactly one upstream
\* attempt, and when its response is returned exactly one outcome for the
\* chosen endpoint has been recorded in the health table, exactly one in the
\* metrics, and exactly one success-or-failure in the breaker.  (DispatchSpec)
C31_OneAttemptOneOutcome ==
    [][Responds =>
        LET endpoint == request'.endpoint
            found == request'.found
        IN  /\ request'.upstream_calls = 1
            /\ service_metrics'[endpoint].total_requests = found.total_requests + 1
            /\ request_history'[Len(request_history')] =
                   RequestMetrics(endpoint, request'.latency_ms, request'.status,
                                  request'.success)
            /\ request_counter' = found.request_counter + 1
            /\ request_duration'.sample_count = found.sample_count + 1
            /\ endpoint_metrics'[endpoint].total_requests = found.endpoint_total + 1
            /\ request.reported = "none"
            /\ request'.reported \in {"success", "failure"}]_vars

\* C31 witness: the response of a request whose endpoint already had an
\* outcome on record has been returned.
C31_Witness ==
    /\ request.at = "answered"
    /\ request.upstream_calls = 1
    /\ request.found.total_requests = 1
    /\ request.found.endpoint_total = 1
    /\ request.reported = "failure"


\* C32: the dispatcher reports an upstream response with status 2xx, 3xx or
\* 4xx to the breaker as a success, and only a transport failure or a 5xx
\* status as a failure.  (DispatchSpec)
C32_SuccessBelow500 ==
    [][Responds =>
        request'.reported = (IF request'.status \in 200..499 THEN "success"
                             ELSE "failure")]_vars

\* C32, amended: the dispatcher reports an upstream response with a 2xx
\* status to the breaker as a success, and every other status, like a
\* transport failure, as a failure.  (DispatchSpec)
C32_SuccessOnly2xx ==
    [][Responds =>
        request'.reported = (IF request'.status \in 200..299 THEN "success"
                             ELSE "failure")]_vars


\* C32 witness: a 404 of the upstream has been passed on and reported to the
\* breaker as a failure, which opened it.
C32_Witness ==
    /\ request.at = "answered"
    /\ request.upstream_calls = 1
    /\ request.status = StatusNotFound
    /\ request.reported = "failure"
    /\ circuit_breakers[request.service].state = Open


\* C33: when reading the client's request body fails, the dispatcher answers
\* 400, and the service's breaker (state, counters, last_failure_time) is as
\* it was before the request arrived.  (DispatchSpec)
C33_BodyErrorAnswers400 ==
    [][(request.at = "prepare" /\ request'.at \notin {"send", "prepare"}
            /\ request'.status # StatusInternalError)
        => /\ request'.at = "answered"
           /\ request'.status = 400
           /\ circuit_breakers'[request'.service] = request'.arrived]_vars

\* C34: when the client disconnects while the upstream send is in flight and
\* the request task is cancelled, a failure outcome is recorded for the
\* selected endpoint.  (DispatchSpec)
C34_CancelRecordsFailure ==
    [][(request.at = "send" /\ request'.at = "cancelled")
        => LET endpoint == request.endpoint
           IN  /\ endpoint \in DOMAIN service_metrics'
               /\ service_metrics'[endpoint].error_count =
                      EntryOr(service_metrics, endpoint, NewServiceHealth).error_count + 1
               /\ request_history' # request_history]_vars


\* ======================================================================
\* Part 8.  Claims about races and progress
\* ======================================================================

\* ---- requests of several tasks on one service's breaker, step by step

Phase(t, p) == flight' = [flight EXCEPT !.phase[t] = p]

\* What a request's breaker calls leave alone.
Aside ==
    UNCHANGED <<history, limiter, health, decision, balancer, collector,
                circuit_breakers, request, sync>>

\* proxy_request begins: circuit_breaker.is_open() is called
Arrive(t) ==
    /\ flight.phase[t] = "idle"
    /\ IsOpenRead(t)
    /\ Phase(t, "admit")
    /\ Aside

ArriveCheck(t) ==
    /\ flight.phase[t] = "admit"
    /\ IsOpenCheck(t)
    /\ UNCHANGED flight
    /\ Aside

ArriveTransition(t) ==
    /\ flight.phase[t] = "admit"
    /\ IsOpenTransition(t)
    /\ UNCHANGED flight
    /\ Aside

\* is_open() has returned: 503 when it said true, else the upstream attempt,
\* which fails only while the upstream has not healed.
Attempt(t) ==
    /\ flight.phase[t] = "admit"
    /\ pc[t] = Idle
    /\ IF ret[t] = "true"
       THEN Phase(t, "idle")
       ELSE \E success \in BOOLEAN :
               /\ success \/ ~flight.healed
               /\ Phase(t, IF success THEN "succeeded" ELSE "failed")
    /\ UNCHANGED <<breaker, now, locals>>
    /\ Aside

\* circuit_breaker.record_success().await
ReportSuccess(t) ==
    /\ flight.phase[t] = "succeeded"
    /\ RecordSuccessRead(t)
    /\ Phase(t, "report_success")
    /\ Aside

\* circuit_breaker.record_failure().await
ReportFailure(t) ==
    /\ flight.phase[t] = "failed"
    /\ RecordFailureRead(t)
    /\ Phase(t, "report_failure")
    /\ Aside

\* the later steps of the record call
ReportStep(t) ==
    /\ flight.phase[t] \in {"report_success", "report_failure"}
    /\ \/ RecordSuccessStore(t)
       \/ RecordSuccessFetchAdd(t)
       \/ RecordSuccessTransition(t)
       \/ RecordFailureFetchAdd(t)
       \/ RecordFailureClosedSetTime(t)
       \/ RecordFailureOpenSetTime(t)
       \/ RecordFailureTransition(t)
    /\ UNCHANGED flight
    /\ Aside

\* Ok(response)
Respond(t) ==
    /\ flight.phase[t] \in {"report_success", "report_failure"}
    /\ pc[t] = Idle
    /\ Phase(t, "idle")
    /\ UNCHANGED <<breaker, now, locals>>
    /\ Aside

\* The upstream heals: from here on every attempt succeeds.  No failure is
\* still on its way to the breaker.
Heal ==
    /\ ~flight.healed
    /\ \A t \in Tasks : flight.phase[t] \notin {"failed", "report_failure"}
    /\ flight' = [flight EXCEPT !.healed = TRUE, !.healed_in = state]
    /\ UNCHANGED <<breaker, now, locals>>
    /\ Aside

\* The clock.  While the upstream fails it stops early enough for a timeout
\* to pass after the last failure before MaxTime.
RecoveryTick ==
    /\ Tick
    /\ flight.healed \/ now + 1 + Timeout <= MaxTime
    /\ UNCHANGED flight
    /\ Aside

TaskNext(t) ==
    \/ Arrive(t)
    \/ ArriveCheck(t)
    \/ ArriveTransition(t)
    \/ Attempt(t)
    \/ ReportSuccess(t)
    \/ ReportFailure(t)
    \/ ReportStep(t)
    \/ Respond(t)

RecoveryNext ==
    \/ \E t \in Tasks : Arrive(t)
    \/ \E t \in Tasks : ArriveCheck(t)
    \/ \E t \in Tasks : ArriveTransition(t)
    \/ \E t \in Tasks : Attempt(t)
    \/ \E t \in Tasks : ReportSuccess(t)
    \/ \E t \in Tasks : ReportFailure(t)
    \/ \E t \in Tasks : ReportStep(t)
    \/ \E t \in Tasks : Respond(t)
    \/ Heal
    \/ RecoveryTick

\* Every task that can take a step takes one, requests keep arriving, and
\* the clock goes on.
RecoverySpec ==
    /\ Init
    /\ [][RecoveryNext]_vars
    /\ \A t \in Tasks : WF_vars(TaskNext(t))
    /\ WF_vars(RecoveryTick)

\* C35: under any interleaving of concurrent is_open, record_success and
\* record_failure calls on one breaker, Closed is entered only from HalfOpen:
\* the breaker never goes from Open directly to Closed.  (BreakerSpec)
C35_ClosedOnlyFromHalfOpen ==
    [][(state' = Closed /\ state # Closed) => state = HalfOpen]_vars


\* C36: if a service's breaker is Open and from some point on every upstream
\* attempt for the service succeeds while requests keep arriving, the breaker
\* eventually reaches Closed, and is_open() stays false from then on.
\* (RecoverySpec)
C36_Recovery ==
    [](flight.healed =>
          <>[](state = Closed /\ \A t \in Tasks : ret[t] # "true"))

\* C36 witness: the upstream healed while the breaker was Open, and the
\* breaker is Closed.
C36_Witness ==
    /\ flight.healed
    /\ flight.healed_in = Open
    /\ state = Closed
    /\ failure_count = 0


\* ----------------------------------------------------------- the rate bound

\* C37: for any key, and as long as the key is neither reset nor swept, the
\* allow(key) calls admitted in any window of T seconds number at most
\* burst_size + requests_per_second * T (amounts in units of 1/TicksPerSecond
\* token, times in ticks), whatever the callers.
C37_RateBound ==
    window.key # NoKey =>
        Units(window.admitted) <=
            Units(BurstSize) + RequestsPerSecond * (now - window.start)

\* C37 witness: a window that admitted more than the burst, the refill of the
\* time it spans having paid for the rest.
C37_Witness ==
    /\ window.key # NoKey
    /\ window.admitted > BurstSize
    /\ now > window.start
    /\ lim_call.op = "allow" /\ lim_call.key = window.key /\ lim_call.ok


\* ======================================================================
\* Part 9.  The order in which the tasks take the shared locks
\* ======================================================================

\* Every shared lock is a tokio::sync::RwLock: a guard is asked for with
\* read().await or write().await, the acquisitions that cannot be served wait
\* in a queue that is served oldest first (a reader that arrives behind a
\* waiting writer waits too), and a guard is released when it is dropped.
\* A call is the list of the acquisitions and releases it makes, in program
\* order; what it computes in between is left out.

Read == "read"
Write == "write"
Acquire(l, m) == [do |-> "acquire", lock |-> l, mode |-> m]
Release(l) == [do |-> "release", lock |-> l, mode |-> "none"]
\* `*self.x.read().await` and the like: a guard that lives for one statement
Once(l, m) == <<Acquire(l, m), Release(l)>>

\* The calls a request task makes in proxy_request.  select_endpoint stands
\* for adaptive_timeout too, and record_success for a record_failure that
\* finds the breaker HalfOpen: they take the same locks the same way.
RequestOps ==
    {"is_open", "record_success", "record_failure",
     "select_endpoint", "record_request", "metrics_record"}
\* The body of the probe task's loop, for one endpoint.
ProbeOps == {"probe"}

\* (mutant: select_endpoint reads the request history while it holds the
\* service metrics)
LockScript_history_under_metrics(op) ==
    CASE op = "is_open" ->
            Once("state", Read) \o Once("last_failure_time", Read)
                \o Once("state", Write)
      [] op = "record_success" -> Once("state", Read) \o Once("state", Write)
      [] op = "record_failure" ->
            Once("state", Read) \o Once("last_failure_time", Write)
                \o Once("state", Write)
      [] op = "select_endpoint" ->
            <<Acquire("service_metrics", Read), Acquire("request_history", Read),
              Release("request_history"), Release("service_metrics")>>
      [] op = "record_request" ->
            <<Acquire("request_history", Write), Acquire("service_metrics", Write),
              Release("service_metrics"), Release("request_history")>>
      [] op = "metrics_record" -> Once("endpoint_metrics", Write)
      [] op = "probe" ->
            <<Acquire("health_status", Write),
              Acquire("request_history", Write), Acquire("service_metrics", Write),
              Release("service_metrics"), Release("request_history"),
              Release("health_status")>>

\* The acquisitions and releases of a call, along its longest path.
\*   is_open: state read; should_attempt_reset: last_failure_time read;
\*       transition_to_half_open: state write
\*   record_success: state read; transition_to_closed: state write
\*       (record_failure from HalfOpen: state read; transition_to_open:
\*       state write)
\*   record_failure from Closed: state read; last_failure_time write;
\*       transition_to_open: state write (from Open it stops after the
\*       last_failure_time write)
\*   select_endpoint: service_metrics read
\*   AIEngine::record_request: request_history write, held while
\*       update_service_health takes service_metrics write
\*   MetricsCollector::record_request: endpoint_metrics write
\*   the probe loop: health_status write, held while it calls
\*       AIEngine::record_request
LockScript(op) ==
    CASE op = "is_open" ->
            Once("state", Read) \o Once("last_failure_time", Read)
                \o Once("state", Write)
      [] op = "record_success" -> Once("state", Read) \o Once("state", Write)
      [] op = "record_failure" ->
            Once("state", Read) \o Once("last_failure_time", Write)
                \o Once("state", Write)
      [] op = "select_endpoint" -> Once("service_metrics", Read)
      [] op = "record_request" ->
            <<Acquire("request_history", Write), Acquire("service_metrics", Write),
              Release("service_metrics"), Release("request_history")>>
      [] op = "metrics_record" -> Once("endpoint_metrics", Write)
      [] op = "probe" ->
            <<Acquire("health_status", Write),
              Acquire("request_history", Write), Acquire("service_metrics", Write),
              Release("service_metrics"), Release("request_history"),
              Release("health_status")>>

\* The steps before which a call may return, its match arm or its test
\* sending it on a shorter path (it has just dropped its only guard).
Returns(op) ==
    CASE op = "is_open" -> {3, 5}
      [] op = "record_success" -> {3}
      [] op = "record_failure" -> {3, 5}
      [] OTHER -> {}

LockFrame ==
    UNCHANGED <<breaker, now, locals, history, limiter, health, decision,
                balancer, edge>>

Queued(t, l) == \E i \in 1..Len(lock_queue[l]) : lock_queue[l][i].task = t
StepOf(t) == LockScript(lock_pc[t].op)[lock_pc[t].at]
\* The position after the step at lock_pc[t].at: idle once the call is over.
Advanced(t) ==
    IF lock_pc[t].at = Len(LockScript(lock_pc[t].op))
    THEN [op |-> "idle", at |-> 0]
    ELSE [lock_pc[t] EXCEPT !.at = @ + 1]

\* A task enters a call.
LockBegin(t, op) ==
    /\ lock_pc[t].op = "idle"
    /\ op \in (IF t = Prober THEN ProbeOps ELSE RequestOps)
    /\ lock_pc' = [lock_pc EXCEPT ![t] = [op |-> op, at |-> 1]]
    /\ UNCHANGED <<lock_held, lock_queue>>
    /\ LockFrame

\* read().await / write().await: the acquisition joins the lock's queue
LockRequest(t) ==
    /\ lock_pc[t].op # "idle"
    /\ StepOf(t).do = "acquire"
    /\ ~Queued(t, StepOf(t).lock)
    /\ lock_queue' = [lock_queue EXCEPT ![StepOf(t).lock] =
                         Append(@, [task |-> t, mode |-> StepOf(t).mode])]
    /\ UNCHANGED <<lock_pc, lock_held>>
    /\ LockFrame

\* A guard can be handed out: no writer holds the lock, and no reader either
\* when the guard is a writer's.
Compatible(l, mode) ==
    IF mode = Write THEN lock_held[l] = {}
    ELSE \A h \in lock_held[l] : h.mode = Read

\* The oldest waiting acquisition of a lock is served.
LockGrant(l) ==
    /\ lock_queue[l] # <<>>
    /\ Compatible(l, Head(lock_queue[l]).mode)
    /\ lock_held' = [lock_held EXCEPT ![l] = @ \cup {Head(lock_queue[l])}]
    /\ lock_queue' = [lock_queue EXCEPT ![l] = Tail(@)]
    /\ lock_pc' = [lock_pc EXCEPT ![Head(lock_queue[l]).task] =
                      Advanced(Head(lock_queue[l]).task)]
    /\ LockFrame

\* A guard is dropped; the call goes on, or returns where it has a shorter
\* path.
LockRelease(t) ==
    /\ lock_pc[t].op # "idle"
    /\ StepOf(t).do = "release"
    /\ lock_held' = [lock_held EXCEPT ![StepOf(t).lock] =
                        {h \in @ : h.task # t}]
    /\ \E next \in {Advanced(t)} \cup
                    (IF lock_pc[t].at + 1 \in Returns(lock_pc[t].op)
                     THEN {[op |-> "idle", at |-> 0]} ELSE {}) :
           lock_pc' = [lock_pc EXCEPT ![t] = next]
    /\ UNCHANGED lock_queue
    /\ LockFrame

LockNext ==
    \/ \E t \in LockTasks, op \in RequestOps \cup ProbeOps : LockBegin(t, op)
    \/ \E t \in LockTasks : LockRequest(t)
    \/ \E l \in Locks : LockGrant(l)
    \/ \E t \in LockTasks : LockRelease(t)

LockSpec == Init /\ [][LockNext]_vars

\* Task t waits for task u: t's acquisition of a lock is queued, and u holds a
\* guard of that lock that excludes it, or u's acquisition is queued ahead of it.
WaitsFor(t, u) ==
    \E l \in Locks : \E i \in 1..Len(lock_queue[l]) :
        /\ lock_queue[l][i].task = t
        /\ \/ \E h \in lock_held[l] :
                 /\ h.task = u
                 /\ (h.mode = Write \/ lock_queue[l][i].mode = Write)
           \/ \E j \in 1..(i - 1) : lock_queue[l][j].task = u

\* C38: the request tasks and the probe task take the shared locks in a
\* consistent order: in no reachable state is there a set of tasks each of
\* which waits for a lock that another task of the set holds or waits for
\* ahead of it (such a set would wait forever).
C38_NoWaitCycle ==
    \A S \in SUBSET LockTasks :
        S # {} => \E t \in S : \A u \in S : ~WaitsFor(t, u)

\* C38 witness: the probe task holds health_status and request_history and
\* waits for service_metrics, which a request task holds, while another
\* request task waits for request_history behind the probe task.
C38_Witness ==
    \E t, u \in Tasks :
        /\ t # u
        /\ lock_pc[Prober] = [op |-> "probe", at |-> 3]
        /\ WaitsFor(Prober, t)
        /\ WaitsFor(u, Prober)

====
